---- MODULE Spec2Model ----
(***************************************************************************)
(* Model of the validatyr backend: the streaming validation pipeline       *)
(* (api/routes.py, validate_idea_stream.event_generator), the category     *)
(* classifier and analysis agents (services/ai_analyzer.py), competitor    *)
(* discovery (services/discovery.py) and the community scraper             *)
(* (services/community_scraper.py).                                        *)
(*                                                                         *)
(* Spec        one streaming run: the async generator, the consumer of     *)
(*             its events and the thread pool its blocking calls run on.   *)
(* SpecScrape  one call of CommunityScraperService.scrape_all.             *)
(***************************************************************************)
EXTENDS Integers, Sequences, FiniteSets, TLC

\* ------------------------------------------------------------------------
\* Bounds of the model
\* ------------------------------------------------------------------------

\* Apps one store directory returns for a query (the code asks for 3).
MaxHits == 1
\* Startups the web/startup search returns (the prompt asks for up to 6).
MaxWeb == 1
\* Competitors parsed from a hardware / saas_web response (the code keeps 8).
MaxListed == 9
\* Funded competitors in a market intelligence response (the prompt: up to 5).
MaxFunded == 1

\* Posts one request of a community adapter can return.
MaxPosts == 2
\* Competitor names given to scrape_all (the code uses the first 5, G2 3).
MaxNames == 1
\* Streaming runs going on at the same time (one more than the pool has
\* workers).
NumRuns == 5

\* ------------------------------------------------------------------------
\* Program constants
\* ------------------------------------------------------------------------

\* routes.py:28  _executor = ThreadPoolExecutor(max_workers=4)
max_workers == 4
\* routes.py:125  total_steps = 5
total_steps == 5

\* ai_analyzer.py:18  valid = ("mobile_app", "hardware", "fintech", "saas_web")
valid == {"mobile_app", "hardware", "fintech", "saas_web"}

\* ai_analyzer.py:20-21  the subcategory detect_category gives a user-chosen category
defaults ==
    [c \in valid |->
        CASE c = "mobile_app" -> "cross_platform"
          [] c = "hardware" -> "consumer hardware"
          [] c = "fintech" -> "payments"
          [] c = "saas_web" -> "B2B SaaS"]

\* ValidationRequest.category: absent (None or ""), a member of the enumeration,
\* or some other string such as "gaming".
NoCategory == "none"
RequestCategories == valid \cup {NoCategory, "gaming"}

\* What the backend can answer to the classification prompt: a transport or
\* API error, or a JSON text naming a category, inside the enumeration or not.
ClassifierResponses == {"raise"} \cup valid \cup {"gaming"}

\* What the backend can answer to an analysis prompt: an error, a text that is
\* not JSON, JSON that does not validate against the declared schema, or a
\* conforming payload.
StageResponses == {"raise", "bad_json", "schema_fail", "ok"}

AnalysisStages == {"researcher", "pm", "market"}

\* ai_analyzer.py:137-144  the agents analyze_reviews_multi_agent calls, in order
DirectStages == <<"researcher", "pm", "analyst">>

\* The prompts whose answers the model records.
Prompts == {"classify", "analyst"} \cup AnalysisStages

VARIABLES
    \* ---- the streaming run (event_generator) ----
    pc,                 \* where the generator is suspended
    connected,          \* the consumer of the event stream is still there
    events,             \* the events the generator has yielded, in order
    apiKey,             \* GEMINI_API_KEY is set in the environment
    user_category,      \* request.category
    tasks,              \* what was submitted to _executor, in order
    log,                \* calls made by the blocking functions, in order
    cat_result,         \* what detect_category returned
    discEnv,            \* what the directories answered during discovery
    discovery,          \* what discover_competitors_and_scrape returned
    responses,          \* what the backend answered to each prompt sent
    funded,             \* top_funded_competitors in the market response
    \* ---- one direct call of analyze_reviews_multi_agent ----
    apc,                \* where analyze_reviews_multi_agent is
    given,              \* its reviews argument is not empty
    verdict,            \* whether it returned or raised
    \* ---- one call of CommunityScraperService.scrape_all ----
    config,             \* the SCRAPING_* flags and PRODUCTHUNT_API_TOKEN
    world,              \* which libraries can be imported and constructed
    service,            \* self: category, _fetcher, _stealthy_fetcher
    args,               \* competitor_names, idea_keywords
    spc,                \* where scrape_all is
    idx,                \* the position of the loop in self.sources
    all_posts,          \* the source of every post collected so far
    succeeded,          \* sources_succeeded
    failed,             \* sources_failed
    trace,              \* the adapters invoked and what happened inside them
    \* ---- one call of the synchronous handler validate_idea ----
    vpc,                \* where validate_idea is
    ids,                \* which store ids the request carries
    http,               \* the status of the response, 0 before there is one
    on_loop,            \* blocking calls made on the event loop thread, in order
    \* ---- one application of a pure function ----
    fpc,                \* which function is applied, and whether it has been
    breakdown,          \* score_breakdown: the seven dimensions
    score,              \* opportunity_score, at both places that compute it
    body,               \* the text given to _truncate
    truncated,          \* _truncate(body) and _truncate(_truncate(body))
    \* ---- several streaming runs on the one pool ----
    streams,            \* each generator: where it is, what it awaits, how it ended
    pool                \* the tasks of _executor, in the order of submission

\* The request and its environment; what the blocking functions returned.
request == <<apiKey, user_category>>
outcomes == <<cat_result, discEnv, discovery, responses, funded>>

streamVars == <<pc, connected, events, request, tasks, log, outcomes>>

scrapeVars == <<config, world, service, args, spc, idx, all_posts, succeeded,
                failed, trace>>

\* One direct call of analyze_reviews_multi_agent.
analyzeVars == <<apc, given, verdict>>

\* One call of the synchronous handler validate_idea.
syncVars == <<vpc, ids, http, on_loop>>

\* One application of a pure function: the score, _truncate.
pureVars == <<fpc, breakdown, score, body, truncated>>

\* Several streaming runs sharing _executor.
poolVars == <<streams, pool>>

restVars == <<syncVars, pureVars, poolVars>>

vars == <<streamVars, analyzeVars, scrapeVars, restVars>>

\* ------------------------------------------------------------------------
\* Helpers
\* ------------------------------------------------------------------------

\* The sequence of n copies of x.
Rep(x, n) == [i \in 1..n |-> x]

\* The elements of sequence s.
Range(s) == {s[i] : i \in DOMAIN s}

\* How many entries of sequence s satisfy the test P.
Count(s, P(_)) == Cardinality({i \in DOMAIN s : P(s[i])})

\* The outcome of a blocking function: it returned, or it raised exc.
Returned == [status |-> "ok", exc |-> ""]
Raised(e) == [status |-> "raised", exc |-> e]

\* ------------------------------------------------------------------------
\* services/ai_analyzer.py
\* ------------------------------------------------------------------------

\* class CategoryDetectionOutput: category is a Literal of the four categories.
CategoryLiteral == {"mobile_app", "hardware", "fintech", "saas_web"}

\* Variant: a category outside the Literal is replaced by "mobile_app".
CategoryDetectionOutput_validate_defaulting(text) ==
    [status |-> "ok", exc |-> "",
     category |-> IF text \in CategoryLiteral THEN text ELSE "mobile_app",
     subcategory |-> "from_backend", backend_calls |-> 1]

\* CategoryDetectionOutput.model_validate_json(response.text): a category
\* outside the Literal is a pydantic ValidationError.
CategoryDetectionOutput_validate(text) ==
    IF text \in CategoryLiteral
    THEN [status |-> "ok", exc |-> "", category |-> text,
          subcategory |-> "from_backend", backend_calls |-> 1]
    ELSE [status |-> "raised", exc |-> "ValidationError", category |-> "",
          subcategory |-> "", backend_calls |-> 1]

\* Variant: the backend is asked whatever the user category is.
detect_category_always_asks(uc, resp) ==
    IF resp = "raise"
    THEN [status |-> "raised", exc |-> "BackendError", category |-> "",
          subcategory |-> "", backend_calls |-> 1]
    ELSE CategoryDetectionOutput_validate(resp)

\* detect_category(client, idea, user_category): a valid user category is
\* returned without asking the backend; otherwise the backend is asked once
\* and its answer validated. resp is what the backend would answer.
detect_category(uc, resp) ==
    IF uc # NoCategory /\ uc \in valid
    THEN [status |-> "ok", exc |-> "", category |-> uc,
          subcategory |-> defaults[uc], backend_calls |-> 0]
    ELSE IF resp = "raise"
    THEN [status |-> "raised", exc |-> "BackendError", category |-> "",
          subcategory |-> "", backend_calls |-> 1]
    ELSE CategoryDetectionOutput_validate(resp)

\* run_researcher_agent: ResearcherOutput(**json.loads(response.text)).
run_researcher_agent(resp) ==
    CASE resp = "raise" -> Raised("BackendError")
      [] resp = "bad_json" -> Raised("JSONDecodeError")
      [] resp = "schema_fail" -> Raised("ValidationError")
      [] OTHER -> Returned

\* Variant: the PM response is used without validating it against PMOutput.
run_pm_agent_unvalidated(resp) ==
    CASE resp = "raise" -> Raised("BackendError")
      [] resp = "bad_json" -> Raised("JSONDecodeError")
      [] OTHER -> Returned

\* run_pm_agent: PMOutput(**json.loads(response.text)).
run_pm_agent(resp) ==
    CASE resp = "raise" -> Raised("BackendError")
      [] resp = "bad_json" -> Raised("JSONDecodeError")
      [] resp = "schema_fail" -> Raised("ValidationError")
      [] OTHER -> Returned

\* run_market_intelligence_agent:
\* MarketIntelligenceOutput.model_validate_json(response.text).
run_market_intelligence_agent(resp) ==
    CASE resp = "raise" -> Raised("BackendError")
      [] resp = "bad_json" -> Raised("ValidationError")
      [] resp = "schema_fail" -> Raised("ValidationError")
      [] OTHER -> Returned

\* run_analyst_agent: AnalystOutput(**json.loads(response.text)).
run_analyst_agent(resp) ==
    CASE resp = "raise" -> Raised("BackendError")
      [] resp = "bad_json" -> Raised("JSONDecodeError")
      [] resp = "schema_fail" -> Raised("ValidationError")
      [] OTHER -> Returned

\* ------------------------------------------------------------------------
\* services/discovery.py
\* ------------------------------------------------------------------------

\* What a store directory answers to a search: the call raises (network
\* error), or it returns `hits` well-formed apps, of which `reviews` have a
\* review to scrape (the review scrapers return [] on any error).
StoreAnswers ==
    {[raise |-> TRUE, hits |-> 0, reviews |-> 0]} \cup
    {s \in [raise : {FALSE}, hits : 0..MaxHits, reviews : 0..MaxHits] :
        s.reviews <= s.hits}

\* What the grounded web/startup search answers.
WebAnswers ==
    {[raise |-> TRUE, hits |-> 0]} \cup
    {[raise |-> FALSE, hits |-> h] : h \in 0..MaxWeb}

\* What the backend answers to the hardware / saas_web prompt: an error, a
\* text with no array in it, a text whose bracketed part is not JSON, an array
\* whose elements are not objects, or an array of n competitor objects.
ListKinds == {"raise", "no_array", "bad_array", "non_objects", "list",
              "list_then_prose", "prose_then_list"}
ListedKinds == {"list", "list_then_prose", "prose_then_list"}
ListAnswers ==
    {[kind |-> k, n |-> 0] : k \in ListKinds \ ListedKinds} \cup
    {[kind |-> k, n |-> n] : k \in ListedKinds, n \in 0..MaxListed}

\* The directories are not asked: the value of the unused fields of discEnv.
NoStore == [raise |-> FALSE, hits |-> 0, reviews |-> 0]
NoWeb == [raise |-> FALSE, hits |-> 0]
NoList == [kind |-> "no_array", n |-> 0]
NoEnv == [query |-> "ok", play |-> NoStore, itunes |-> NoStore, web |-> NoWeb,
          listed |-> NoList]

\* The answers the outside world can give during one discovery, by branch.
DiscoveryEnvs(cat) ==
    IF cat \in {"hardware", "saas_web"}
    THEN {[NoEnv EXCEPT !.listed = l] : l \in ListAnswers}
    ELSE {[NoEnv EXCEPT !.query = "raise"]} \cup
         {[NoEnv EXCEPT !.play = p, !.itunes = i, !.web = w] :
            p \in StoreAnswers, i \in StoreAnswers, w \in WebAnswers}

Competitor(platform, source) == [platform |-> platform, source |-> source]

DiscoveryResult(st, e, rv, cs, calls) ==
    [status |-> st, exc |-> e, reviews |-> rv, competitors |-> cs, calls |-> calls]

\* for c in competitors[:8]: the elements of the parsed list that are kept.
listed_limit == 8

\* response.text, as the tokens that matter to the parsing: brackets, objects
\* ("obj"), other JSON values ("num"), text that is not JSON ("junk", "prose").
\* A well-formed array of n objects, alone, followed by prose with a bracketed
\* remark ("... [source: web]"), or preceded by one.
Array(n) == <<"[">> \o Rep("obj", n) \o <<"]">>
Remark == <<"prose", "[", "prose", "]">>
ResponseText(ans) ==
    CASE ans.kind = "no_array" -> <<"prose">>
      [] ans.kind = "bad_array" -> <<"[", "obj", "junk", "]">>
      [] ans.kind = "non_objects" -> <<"[", "num", "]">>
      [] ans.kind = "list" -> Array(ans.n)
      [] ans.kind = "list_then_prose" -> Array(ans.n) \o Remark
      [] ans.kind = "prose_then_list" -> Remark \o Array(ans.n)

\* re.search(r'\[.*\]', text, re.DOTALL): the match starts at the first "["
\* that has a "]" after it and, .* being greedy, ends at the last "]" of the
\* text. NoMatch is the None of re.search (a match is never empty).
NoMatch == <<>>
re_search(text) ==
    LET opens == {i \in DOMAIN text : text[i] = "["}
        closes == {i \in DOMAIN text : text[i] = "]"}
        first == CHOOSE i \in opens : \A k \in opens : i <= k
        last == CHOOSE j \in closes : \A k \in closes : k <= j
    IN  IF opens = {} \/ closes = {} THEN NoMatch
        ELSE IF first < last THEN SubSeq(text, first, last)
        ELSE NoMatch

\* json.loads(match.group()): the list of the elements of a well-formed array,
\* JSONDecodeError for anything else.
json_loads(t) ==
    IF /\ Len(t) >= 2
       /\ t[1] = "[" /\ t[Len(t)] = "]"
       /\ \A i \in 2..(Len(t) - 1) : t[i] \in {"obj", "num"}
    THEN [ok |-> TRUE, value |-> SubSeq(t, 2, Len(t) - 1)]
    ELSE [ok |-> FALSE, value |-> <<>>]

\* _discover_hardware_competitors / _discover_saas_competitors: one grounded
\* backend call, re.search for a bracketed substring, json.loads inside a try,
\* and one c.get(...) record per element of competitors[:8], outside the try.
discover_listed(platform, call, ans) ==
    IF ans.kind = "raise"
    THEN DiscoveryResult("raised", "BackendError", <<>>, <<>>, <<call>>)
    ELSE LET match == re_search(ResponseText(ans))
             competitors == json_loads(match)
             kept == SubSeq(competitors.value, 1,
                            IF Len(competitors.value) < listed_limit
                            THEN Len(competitors.value) ELSE listed_limit)
         IN  IF match = NoMatch \/ ~competitors.ok
             THEN DiscoveryResult("ok", "", <<>>, <<>>, <<call>>)
             ELSE IF \E i \in DOMAIN kept : kept[i] # "obj"
             THEN DiscoveryResult("raised", "AttributeError", <<>>, <<>>, <<call>>)
             ELSE DiscoveryResult("ok", "", <<>>,
                                  [i \in DOMAIN kept |-> Competitor(platform, "web")],
                                  <<call>>)

\* The Play Store part of the outer try block: search(), then for every app a
\* competitor record and its reviews.
play_store_search(env) ==
    [raised |-> env.play.raise,
     competitors |-> Rep(Competitor("android", "play_store"), env.play.hits),
     reviews |-> Rep("android", env.play.reviews)]

\* The App Store part, inside its own try/except: requests.get(itunes_url).
app_store_search(env) ==
    IF env.itunes.raise
    THEN [competitors |-> <<>>, reviews |-> <<>>]
    ELSE [competitors |-> Rep(Competitor("ios", "app_store"), env.itunes.hits),
          reviews |-> Rep("ios", env.itunes.reviews)]

\* The web/startup part, inside its own try/except: _discover_web_startups.
web_startup_search(env) ==
    IF env.web.raise THEN <<>> ELSE Rep(Competitor("web", "web"), env.web.hits)

\* Variant: the outer try has no except clause, the error reaches the caller.
outer_except_reraise(calls) == DiscoveryResult("raised", "NetworkError", <<>>, <<>>, calls)

\* except Exception as e: logger.error(...); return [], []
\* the handler of the try block around the three searches, entered after the
\* calls `calls`.
outer_except(calls) == DiscoveryResult("ok", "", <<>>, <<>>, calls)

\* discover_competitors_and_scrape(app_idea, category), with key = whether
\* GEMINI_API_KEY is set and env = what the outside world answers.
discover_competitors_and_scrape(cat, key, env) ==
    IF ~key THEN DiscoveryResult("raised", "ValueError", <<>>, <<>>, <<>>)
    ELSE IF cat = "hardware" THEN discover_listed("hardware", "hardware_search", env.listed)
    ELSE IF cat = "saas_web" THEN discover_listed("web", "saas_search", env.listed)
    ELSE IF env.query = "raise"
    THEN DiscoveryResult("raised", "BackendError", <<>>, <<>>, <<"query_backend">>)
    ELSE LET play == play_store_search(env)
             ios == app_store_search(env)
             web == web_startup_search(env)
         IN  IF play.raised
             THEN outer_except(<<"query_backend", "play_search">>)
             ELSE DiscoveryResult("ok", "",
                                  play.reviews \o ios.reviews,
                                  play.competitors \o ios.competitors \o web,
                                  <<"query_backend", "play_search",
                                    "itunes_search", "web_search">>)

\* ------------------------------------------------------------------------
\* api/routes.py: validate_idea_stream.event_generator
\* ------------------------------------------------------------------------

\* Variant: the step index counts from zero.
Status_zero_based(agent, step) ==
    [event |-> "status", agent |-> agent, step |-> step - 1,
     total |-> total_steps, message |-> ""]

\* yield {"event": "status", "data": {"agent", "message", "step", "total"}}
Status(agent, step) ==
    [event |-> "status", agent |-> agent, step |-> step, total |-> total_steps,
     message |-> ""]
\* yield {"event": "category", "data": ...}
CategoryEvent == [event |-> "category", agent |-> "", step |-> 0, total |-> 0,
                  message |-> ""]
\* yield {"event": "error", "data": {"message": ...}}
ErrorEvent(msg) == [event |-> "error", agent |-> "", step |-> 0, total |-> 0,
                    message |-> msg]
\* yield {"event": "result", "data": final_result.model_dump_json()}
ResultEvent == [event |-> "result", agent |-> "", step |-> 0, total |-> 0,
                message |-> ""]

\* A task of _executor: the function it runs, where it is (queued, running on
\* a worker thread, done) and how its future completed.
Task(fn) == [fn |-> fn, state |-> "queued", status |-> "pending", exc |-> ""]

\* The task the generator submitted last, whose future it awaits.
Current == Len(tasks)

\* Variant: run_in_executor is not awaited, the generator goes on at once.
FutureDone_not_awaited(i) == i \in DOMAIN tasks

\* await loop.run_in_executor(...): the generator goes on only when the future
\* of the task is done.
FutureDone(i) == tasks[i].state = "done"

\* The generator yields event ev and is suspended at label next.
Yield(ev, next) ==
    /\ events' = Append(events, ev)
    /\ pc' = next

\* except Exception as e: yield {"event": "error", "message": str(e)}
Except(e) == Yield(ErrorEvent(e), "y_error")

\* loop.run_in_executor(_executor, fn): the task is queued on the pool and the
\* generator is suspended until its future is done.
Submit(fn, next) ==
    /\ tasks' = Append(tasks, Task(fn))
    /\ pc' = next

\* The generator runs only while the response is being consumed.
Running(label) == connected /\ pc = label

\* try: api_key = os.getenv(...); if not api_key: raise ValueError(...)
\* then the first status of step 1.
GenStart ==
    /\ Running("start")
    /\ IF apiKey
       THEN Yield(Status("Category Detector", 1), "y_status1")
       ELSE Except("GEMINI_API_KEY not set.")
    /\ UNCHANGED <<connected, request, tasks, log, outcomes, analyzeVars, scrapeVars, restVars>>

\* cat_result = await loop.run_in_executor(_executor, detect_category ...)
SubmitDetectCategory ==
    /\ Running("y_status1")
    /\ Submit("detect_category", "await_detect")
    /\ UNCHANGED <<connected, events, request, log, outcomes, analyzeVars, scrapeVars, restVars>>

\* The future of detect_category is done: its exception is raised in the
\* generator, or the category event is yielded.
AfterDetectCategory ==
    /\ Running("await_detect")
    /\ FutureDone(Current)
    /\ IF tasks[Current].status = "raised"
       THEN Except(tasks[Current].exc)
       ELSE Yield(CategoryEvent, "y_category")
    /\ UNCHANGED <<connected, request, tasks, log, outcomes, analyzeVars, scrapeVars, restVars>>

\* The second status of step 1 ("Identified: ...").
YieldIdentified ==
    /\ Running("y_category")
    /\ Yield(Status("Category Detector", 1), "y_status1b")
    /\ UNCHANGED <<connected, request, tasks, log, outcomes, analyzeVars, scrapeVars, restVars>>

\* The first status of step 2.
YieldDiscovery ==
    /\ Running("y_status1b")
    /\ Yield(Status("Discovery Agent", 2), "y_status2")
    /\ UNCHANGED <<connected, request, tasks, log, outcomes, analyzeVars, scrapeVars, restVars>>

\* reviews, competitors_meta = await loop.run_in_executor(_executor, discover ...)
SubmitDiscovery ==
    /\ Running("y_status2")
    /\ Submit("discover", "await_discover")
    /\ UNCHANGED <<connected, events, request, log, outcomes, analyzeVars, scrapeVars, restVars>>

\* The future of discovery is done: "Found n competitors."
AfterDiscovery ==
    /\ Running("await_discover")
    /\ FutureDone(Current)
    /\ IF tasks[Current].status = "raised"
       THEN Except(tasks[Current].exc)
       ELSE Yield(Status("Discovery Agent", 2), "y_status2b")
    /\ UNCHANGED <<connected, request, tasks, log, outcomes, analyzeVars, scrapeVars, restVars>>

\* if not reviews and not competitors_meta: yield error; return
\* otherwise the first status of step 3.
NoCompetitors == discovery.reviews = <<>> /\ discovery.competitors = <<>>

CheckCompetitors ==
    /\ Running("y_status2b")
    /\ IF NoCompetitors
       THEN Yield(ErrorEvent("No competitors found."), "y_error_empty")
       ELSE Yield(Status("Researcher Agent", 3), "y_status3")
    /\ UNCHANGED <<connected, request, tasks, log, outcomes, analyzeVars, scrapeVars, restVars>>

\* Variant: the return after the "No competitors found" error is missing and
\* the generator goes on to the researcher.
ReturnEmpty_falls_through ==
    /\ Running("y_error_empty")
    /\ Yield(Status("Researcher Agent", 3), "y_status3")
    /\ UNCHANGED <<connected, request, tasks, log, outcomes, analyzeVars, scrapeVars, restVars>>

\* return, after the "No competitors found" error: the generator is finished.
ReturnEmpty ==
    /\ Running("y_error_empty")
    /\ pc' = "done"
    /\ UNCHANGED <<connected, events, request, tasks, log, outcomes, analyzeVars, scrapeVars, restVars>>

\* reviews_text = ...; researcher_result = await loop.run_in_executor(...)
SubmitResearcher ==
    /\ Running("y_status3")
    /\ Submit("researcher", "await_researcher")
    /\ UNCHANGED <<connected, events, request, log, outcomes, analyzeVars, scrapeVars, restVars>>

\* The future of the researcher is done: "Found n pain points ...".
AfterResearcher ==
    /\ Running("await_researcher")
    /\ FutureDone(Current)
    /\ IF tasks[Current].status = "raised"
       THEN Except(tasks[Current].exc)
       ELSE Yield(Status("Researcher Agent", 3), "y_status3b")
    /\ UNCHANGED <<connected, request, tasks, log, outcomes, analyzeVars, scrapeVars, restVars>>

\* The first status of step 4.
YieldPM ==
    /\ Running("y_status3b")
    /\ Yield(Status("PM Agent", 4), "y_status4")
    /\ UNCHANGED <<connected, request, tasks, log, outcomes, analyzeVars, scrapeVars, restVars>>

\* pm_result = await loop.run_in_executor(_executor, run_pm_agent ...)
SubmitPM ==
    /\ Running("y_status4")
    /\ Submit("pm", "await_pm")
    /\ UNCHANGED <<connected, events, request, log, outcomes, analyzeVars, scrapeVars, restVars>>

\* The future of the PM agent is done: "MVP roadmap ready".
AfterPM ==
    /\ Running("await_pm")
    /\ FutureDone(Current)
    /\ IF tasks[Current].status = "raised"
       THEN Except(tasks[Current].exc)
       ELSE Yield(Status("PM Agent", 4), "y_status4b")
    /\ UNCHANGED <<connected, request, tasks, log, outcomes, analyzeVars, scrapeVars, restVars>>

\* The first status of step 5.
YieldMarket ==
    /\ Running("y_status4b")
    /\ Yield(Status("Market Intelligence", 5), "y_status5")
    /\ UNCHANGED <<connected, request, tasks, log, outcomes, analyzeVars, scrapeVars, restVars>>

\* market_result = await loop.run_in_executor(_executor, run_market ...)
SubmitMarket ==
    /\ Running("y_status5")
    /\ Submit("market", "await_market")
    /\ UNCHANGED <<connected, events, request, log, outcomes, analyzeVars, scrapeVars, restVars>>

\* funded_competitors_dicts = [fc.model_dump() for fc in
\* market_result.top_funded_competitors]: the schema declares List[dict], and a
\* dict has no model_dump, so any funded competitor raises AttributeError.
funded_competitors_dicts(n) ==
    IF n > 0 THEN Raised("AttributeError") ELSE Returned

\* The future of the market agent is done: the score, the final result and
\* the last status ("Score: n/100").
AfterMarket ==
    /\ Running("await_market")
    /\ FutureDone(Current)
    /\ IF tasks[Current].status = "raised"
       THEN Except(tasks[Current].exc)
       ELSE IF funded_competitors_dicts(funded).status = "raised"
       THEN Except(funded_competitors_dicts(funded).exc)
       ELSE Yield(Status("Market Intelligence", 5), "y_status5b")
    /\ UNCHANGED <<connected, request, tasks, log, outcomes, analyzeVars, scrapeVars, restVars>>

\* yield {"event": "result", ...}
YieldResult ==
    /\ Running("y_status5b")
    /\ Yield(ResultEvent, "y_result")
    /\ UNCHANGED <<connected, request, tasks, log, outcomes, analyzeVars, scrapeVars, restVars>>

\* After the result, or after the error of the except clause, the generator
\* body ends.
Finish ==
    /\ connected
    /\ pc \in {"y_result", "y_error"}
    /\ pc' = "done"
    /\ UNCHANGED <<connected, events, request, tasks, log, outcomes, analyzeVars, scrapeVars, restVars>>

\* Variant: the cancellation is caught by the except clause (a bare except, or
\* except BaseException), which yields its error event.
Disconnect_caught ==
    /\ connected
    /\ pc # "done"
    /\ connected' = FALSE
    /\ Yield(ErrorEvent("CancelledError"), "cancelled")
    /\ UNCHANGED <<request, tasks, log, outcomes, analyzeVars, scrapeVars, restVars>>

\* The consumer goes away: the response task is cancelled, the generator is
\* closed where it is suspended (CancelledError and GeneratorExit are not
\* Exceptions, so the except clause does not run) and nothing more is yielded
\* or submitted. A task already on the pool is not interrupted.
Disconnect ==
    /\ connected
    /\ pc # "done"
    /\ connected' = FALSE
    /\ pc' = "cancelled"
    /\ UNCHANGED <<events, request, tasks, log, outcomes, analyzeVars, scrapeVars, restVars>>

\* ------------------------------------------------------------------------
\* _executor = ThreadPoolExecutor(max_workers=4): the worker threads
\* ------------------------------------------------------------------------

Call(op) == [op |-> op, ev |-> "call"]
Entry(op, ev) == [op |-> op, ev |-> ev]

\* How the log records that the function of a task ended.
Ended(fn, out) == Entry(fn, IF out.status = "ok" THEN "return" ELSE "raise")

\* The future of task i completes with outcome out.
Complete(i, out) ==
    tasks' = [tasks EXCEPT ![i] = [@ EXCEPT !.state = "done",
                                            !.status = out.status,
                                            !.exc = out.exc]]

\* A free worker thread takes a queued task and starts its function.
WorkerStart(i) ==
    /\ tasks[i].state = "queued"
    /\ Cardinality({j \in DOMAIN tasks : tasks[j].state = "running"}) < max_workers
    /\ tasks' = [tasks EXCEPT ![i].state = "running"]
    /\ log' = Append(log, Entry(tasks[i].fn, "start"))
    /\ UNCHANGED <<pc, connected, events, request, outcomes, analyzeVars, scrapeVars, restVars>>

\* lambda: detect_category(client, idea, user_category)
WorkerDetectCategory(i) ==
    /\ tasks[i].state = "running"
    /\ tasks[i].fn = "detect_category"
    /\ \E resp \in ClassifierResponses :
         LET out == detect_category(user_category, resp)
         IN  /\ cat_result' = out
             /\ Complete(i, out)
             /\ responses' = [responses EXCEPT
                                !["classify"] = IF out.backend_calls > 0
                                                THEN resp ELSE @]
             /\ log' = log \o Rep(Call("backend:classify"), out.backend_calls)
                           \o <<Ended("detect_category", out)>>
    /\ UNCHANGED <<pc, connected, events, request, discEnv, discovery,
                   funded, analyzeVars, scrapeVars, restVars>>

\* lambda: discover_competitors_and_scrape(idea, category)
WorkerDiscover(i) ==
    /\ tasks[i].state = "running"
    /\ tasks[i].fn = "discover"
    /\ \E env \in DiscoveryEnvs(cat_result.category) :
         LET out == discover_competitors_and_scrape(cat_result.category, apiKey, env)
         IN  /\ discEnv' = env
             /\ discovery' = out
             /\ Complete(i, out)
             /\ log' = log \o [k \in DOMAIN out.calls |-> Call(out.calls[k])]
                           \o <<Ended("discover", out)>>
    /\ UNCHANGED <<pc, connected, events, request, cat_result, responses, funded, analyzeVars, scrapeVars, restVars>>

\* The function and the backend call of each analysis stage.
run_stage(fn, resp) ==
    CASE fn = "researcher" -> run_researcher_agent(resp)
      [] fn = "pm" -> run_pm_agent(resp)
      [] fn = "market" -> run_market_intelligence_agent(resp)

\* lambda: run_researcher_agent(...) / run_pm_agent(...) /
\* run_market_intelligence_agent(...): one backend call each.
WorkerStage(i) ==
    /\ tasks[i].state = "running"
    /\ tasks[i].fn \in AnalysisStages
    /\ \E resp \in StageResponses :
         LET fn == tasks[i].fn
             out == run_stage(fn, resp)
         IN  /\ responses' = [responses EXCEPT ![fn] = resp]
             /\ Complete(i, out)
             /\ log' = log \o <<Call("backend:" \o fn), Ended(fn, out)>>
             /\ IF fn = "market" /\ out.status = "ok"
                THEN \E n \in 0..MaxFunded : funded' = n
                ELSE UNCHANGED funded
    /\ UNCHANGED <<pc, connected, events, request, cat_result, discEnv, discovery, analyzeVars, scrapeVars, restVars>>

\* Before the functions have run.
NoCatResult == [status |-> "none", exc |-> "", category |-> "", subcategory |-> "",
                backend_calls |-> 0]
NoDiscovery == DiscoveryResult("none", "", <<>>, <<>>, <<>>)


\* ------------------------------------------------------------------------
\* services/community_scraper.py: CommunityScraperService
\* ------------------------------------------------------------------------

\* SCRAPING_MAX_PER_SOURCE = int(os.getenv("SCRAPING_MAX_PER_SOURCE", "20")):
\* the deployment modelled sets it to 1.
SCRAPING_MAX_PER_SOURCE == 1

\* CATEGORY_SOURCES.get(category, CATEGORY_SOURCES["mobile_app"]), by value.
CATEGORY_SOURCES(cat) ==
    IF cat \in {"saas_web", "fintech"}
    THEN <<"reddit", "hackernews", "twitter", "producthunt", "g2">>
    ELSE <<"reddit", "hackernews", "twitter", "producthunt">>

Min(a, b) == IF a < b THEN a ELSE b

\* s[:n]
Take(s, n) == SubSeq(s, 1, Min(n, Len(s)))

\* A name that is not empty after strip().
NonBlank(name) == name # ""

\* _build_queries(competitor_names, idea_keywords)
_build_queries(competitor_names, idea_keywords) ==
    LET queries == (IF idea_keywords # "" THEN <<idea_keywords>> ELSE <<>>)
                   \o SelectSeq(Take(competitor_names, 5), NonBlank)
    IN  IF queries # <<>> THEN queries ELSE <<"app">>

\* What an external source answers to one request: the request times out, the
\* response is not a 200, the payload is malformed, or `posts` usable posts
\* come back.
RequestAnswers ==
    {[kind |-> k, posts |-> 0] : k \in {"timeout", "non200", "malformed"}} \cup
    {[kind |-> "ok", posts |-> n] : n \in 0..MaxPosts}

\* What one request adds to the posts of an adapter: every adapter catches a
\* failed request inside its loop (logger.debug, continue), and a page that
\* is not the expected one has none of the elements looked for.
Posts(a) == IF a.kind = "ok" THEN a.posts ELSE 0

\* What the source answers to the n requests of one adapter call, taken
\* together: `failed` of them fail (a timeout, a non-200 response or a
\* malformed payload, each caught inside the loop), the others bring `posts`
\* usable posts in all.
BatchAnswers(n) ==
    {a \in [failed : 0..n, posts : 0..MaxPosts] : a.failed = n => a.posts = 0}

\* What a call of an adapter does: it raises or returns `posts` posts, after
\* `errors` failed requests, and leaves the service's fetchers as `service`.
AdapterRaised(svc) ==
    [raised |-> TRUE, posts |-> 0, errors |-> 0, service |-> svc, fetches |-> {}]
AdapterReturned(n, e, svc) ==
    [raised |-> FALSE, posts |-> n, errors |-> e, service |-> svc, fetches |-> {}]

\* What an adapter did for one query of a source behind anti-bot defenses:
\* whether the lightweight fetch path was tried and what it yielded, and
\* whether a fetch with the stealthy fetcher was made.
Fetch(light, heavy) == [light |-> light, heavy |-> heavy]

\* The requests _scrape_reddit makes: one search for each of
\* self.subreddits[:4] (every category lists 4) and each of queries[:2].
reddit_requests(qs) == 4 * Len(Take(qs, 2))

\* _scrape_reddit: _get_fetcher() outside the try, then the searches, each
\* inside its own try/except.
_scrape_reddit(svc, wld, ans) ==
    IF ~svc._fetcher /\ ~wld.scrapling
    THEN AdapterRaised(svc)
    ELSE AdapterReturned(ans.posts, ans.failed, [svc EXCEPT !._fetcher = TRUE])

\* The requests _scrape_hackernews makes: one search for each of queries[:3].
hackernews_requests(qs) == Len(Take(qs, 3))

\* _scrape_hackernews: _get_fetcher() outside the try, then the searches, each
\* inside its own try/except.
_scrape_hackernews(svc, wld, ans) ==
    IF ~svc._fetcher /\ ~wld.scrapling
    THEN AdapterRaised(svc)
    ELSE AdapterReturned(ans.posts, ans.failed, [svc EXCEPT !._fetcher = TRUE])

\* _scrape_twitter, query q of n: the Nitter fetch inside a try (with
\* _get_fetcher()), and the X.com fallback with the stealthy fetcher, inside
\* another try, when nothing was scraped and SCRAPING_STEALTHY_ENABLED.
RECURSIVE twitter_queries(_, _, _, _, _, _, _)
twitter_queries(q, n, acc, wld, cfg, light, heavy) ==
    IF q > n THEN acc
    ELSE LET can_light == acc.service._fetcher \/ wld.scrapling
             scraped == can_light /\ Posts(light[q]) > 0
             after_light ==
                 [acc EXCEPT !.service._fetcher = can_light,
                             !.posts = @ + (IF scraped THEN Posts(light[q]) ELSE 0),
                             !.errors = @ + (IF can_light /\ light[q].kind # "ok"
                                             THEN 1 ELSE 0)]
             fallback == ~scraped /\ cfg.SCRAPING_STEALTHY_ENABLED
             can_heavy == acc.service._stealthy_fetcher \/ wld.stealthy
             after_heavy ==
                 IF ~fallback THEN after_light
                 ELSE [after_light EXCEPT
                         !.service._stealthy_fetcher = can_heavy,
                         !.posts = @ + (IF can_heavy THEN Posts(heavy[q]) ELSE 0),
                         !.errors = @ + (IF can_heavy /\ heavy[q].kind # "ok"
                                         THEN 1 ELSE 0)]
             fetched ==
                 [after_heavy EXCEPT
                    !.fetches = @ \cup {Fetch(IF scraped THEN "some" ELSE "zero",
                                              fallback /\ can_heavy)}]
         IN  twitter_queries(q + 1, n, fetched, wld, cfg, light, heavy)

\* _scrape_twitter: nothing outside a try but the loop itself (queries[:2]).
_scrape_twitter(svc, wld, cfg, queries, light, heavy) ==
    twitter_queries(1, Len(Take(queries, 2)), AdapterReturned(0, 0, svc),
                    wld, cfg, light, heavy)

\* The requests _scrape_producthunt makes: none without a token, else one
\* GraphQL request for each of queries[:3].
producthunt_requests(cfg, qs) ==
    IF cfg.PRODUCTHUNT_API_TOKEN THEN Len(Take(qs, 3)) ELSE 0

\* _scrape_producthunt: import requests, return [] without a token, then the
\* requests; a non-200 response and an exception both skip the query.
_scrape_producthunt(svc, wld, cfg, ans) ==
    IF ~wld.requests THEN AdapterRaised(svc)
    ELSE IF ~cfg.PRODUCTHUNT_API_TOKEN THEN AdapterReturned(0, 0, svc)
    ELSE AdapterReturned(ans.posts, ans.failed, svc)

\* The requests _scrape_g2 makes: one stealthy fetch for each non-blank name
\* of competitor_names[:3].
g2_requests(competitor_names) ==
    Len(SelectSeq(Take(competitor_names, 3), NonBlank))

\* _scrape_g2: the flag, _get_stealthy_fetcher() outside the try, then the
\* fetches, each inside its own try/except.
_scrape_g2(svc, wld, cfg, competitor_names, ans) ==
    IF ~cfg.SCRAPING_STEALTHY_ENABLED THEN AdapterReturned(0, 0, svc)
    ELSE IF ~svc._stealthy_fetcher /\ ~wld.stealthy THEN AdapterRaised(svc)
    ELSE [AdapterReturned(ans.posts, ans.failed,
                          [svc EXCEPT !._stealthy_fetcher = TRUE])
            EXCEPT !.fetches = IF g2_requests(competitor_names) > 0
                               THEN {Fetch("untried", TRUE)} ELSE {}]

\* The sources of the service, and the one the loop is at.
sources == CATEGORY_SOURCES(service.category)
source == sources[idx]
queries == _build_queries(args.competitor_names, args.idea_keywords)

\* The answers to the n requests an adapter may make.
Answers(n) == [1..n -> RequestAnswers]

\* Variant: scrape_all does not look at SCRAPING_ENABLED.
ScrapeAllEnter_ignores_flag ==
    /\ spc = "call"
    /\ spc' = "loop" /\ idx' = 1
    /\ UNCHANGED <<config, world, service, args, all_posts, succeeded, failed,
                   trace, streamVars, analyzeVars, restVars>>

\* if not SCRAPING_ENABLED: return CommunityScrapingResult()
\* otherwise the lists are created, the queries built and the loop entered.
ScrapeAllEnter ==
    /\ spc = "call"
    /\ IF ~config.SCRAPING_ENABLED
       THEN spc' = "returned" /\ idx' = idx
       ELSE spc' = "loop" /\ idx' = 1
    /\ UNCHANGED <<config, world, service, args, all_posts, succeeded, failed,
                   trace, streamVars, analyzeVars, restVars>>

InLoop == spc = "loop" /\ idx <= Len(sources)

\* if source == TWITTER and not SCRAPING_TWITTER_ENABLED: continue
SkipTwitter ==
    /\ InLoop
    /\ source = "twitter" /\ ~config.SCRAPING_TWITTER_ENABLED
    /\ idx' = idx + 1
    /\ UNCHANGED <<config, world, service, args, spc, all_posts, succeeded,
                   failed, trace, streamVars, analyzeVars, restVars>>

\* if source in (TWITTER, G2) and not SCRAPING_STEALTHY_ENABLED: continue
SkipStealthy ==
    /\ InLoop
    /\ ~(source = "twitter" /\ ~config.SCRAPING_TWITTER_ENABLED)
    /\ source \in {"twitter", "g2"} /\ ~config.SCRAPING_STEALTHY_ENABLED
    /\ idx' = idx + 1
    /\ UNCHANGED <<config, world, service, args, spc, all_posts, succeeded,
                   failed, trace, streamVars, analyzeVars, restVars>>

\* The source is not skipped: its adapter is called.
Dispatched(s) ==
    /\ InLoop
    /\ source = s
    /\ ~(s = "twitter" /\ ~config.SCRAPING_TWITTER_ENABLED)
    /\ ~(s \in {"twitter", "g2"} /\ ~config.SCRAPING_STEALTHY_ENABLED)

\* Variant: all_posts.extend(posts), without the slice.
Ledger_untruncated(r) ==
    /\ trace' = [invoked |-> Append(trace.invoked, source),
                 raised |-> trace.raised \cup
                            (IF r.raised THEN {source} ELSE {}),
                 errors |-> trace.errors \cup
                            (IF r.errors > 0 THEN {source} ELSE {}),
                 fetches |-> trace.fetches \cup
                             {[source |-> source, light |-> f.light,
                               heavy |-> f.heavy] : f \in r.fetches}]
    /\ service' = r.service
    /\ IF r.raised
       THEN /\ failed' = Append(failed, source)
            /\ UNCHANGED <<all_posts, succeeded>>
       ELSE /\ all_posts' = all_posts \o Rep(source, r.posts)
            /\ succeeded' = Append(succeeded, source)
            /\ UNCHANGED failed
    /\ idx' = idx + 1
    /\ UNCHANGED <<config, world, args, spc, streamVars, analyzeVars, restVars>>

\* Variant: the call of the adapter is not inside a try, its exception leaves
\* scrape_all.
Ledger_uncaught(r) ==
    /\ trace' = [invoked |-> Append(trace.invoked, source),
                 raised |-> trace.raised \cup
                            (IF r.raised THEN {source} ELSE {}),
                 errors |-> trace.errors \cup
                            (IF r.errors > 0 THEN {source} ELSE {}),
                 fetches |-> trace.fetches \cup
                             {[source |-> source, light |-> f.light,
                               heavy |-> f.heavy] : f \in r.fetches}]
    /\ service' = r.service
    /\ IF r.raised
       THEN /\ spc' = "raised"
            /\ UNCHANGED <<all_posts, succeeded>>
       ELSE /\ all_posts' = all_posts \o
                            Rep(source, Min(r.posts, SCRAPING_MAX_PER_SOURCE))
            /\ succeeded' = Append(succeeded, source)
            /\ UNCHANGED spc
    /\ idx' = idx + 1
    /\ UNCHANGED <<config, world, args, failed, streamVars, analyzeVars, restVars>>

\* try: posts = scraper_fn(queries, competitor_names)
\*      all_posts.extend(posts[:SCRAPING_MAX_PER_SOURCE]); succeeded.append(...)
\* except Exception: failed.append(source.value)
\* with r what the adapter did.
Ledger(r) ==
    /\ trace' = [invoked |-> Append(trace.invoked, source),
                 raised |-> trace.raised \cup
                            (IF r.raised THEN {source} ELSE {}),
                 errors |-> trace.errors \cup
                            (IF r.errors > 0 THEN {source} ELSE {}),
                 fetches |-> trace.fetches \cup
                             {[source |-> source, light |-> f.light,
                               heavy |-> f.heavy] : f \in r.fetches}]
    /\ service' = r.service
    /\ IF r.raised
       THEN /\ failed' = Append(failed, source)
            /\ UNCHANGED <<all_posts, succeeded>>
       ELSE /\ all_posts' = all_posts \o
                            Rep(source, Min(r.posts, SCRAPING_MAX_PER_SOURCE))
            /\ succeeded' = Append(succeeded, source)
            /\ UNCHANGED failed
    /\ idx' = idx + 1
    /\ UNCHANGED <<config, world, args, spc, streamVars, analyzeVars, restVars>>

ScrapeReddit ==
    /\ Dispatched("reddit")
    /\ \E ans \in BatchAnswers(reddit_requests(queries)) :
         Ledger(_scrape_reddit(service, world, ans))

ScrapeHackerNews ==
    /\ Dispatched("hackernews")
    /\ \E ans \in BatchAnswers(hackernews_requests(queries)) :
         Ledger(_scrape_hackernews(service, world, ans))

\* X.com is asked about query q only when Nitter gave nothing for it.
NotAsked == [kind |-> "ok", posts |-> 0]
FallbackAnswers(light) ==
    {heavy \in Answers(Len(light)) :
        \A q \in DOMAIN light : Posts(light[q]) > 0 => heavy[q] = NotAsked}

ScrapeTwitter ==
    /\ Dispatched("twitter")
    /\ \E light \in Answers(Len(Take(queries, 2))) :
         \E heavy \in FallbackAnswers(light) :
            Ledger(_scrape_twitter(service, world, config, queries, light, heavy))

ScrapeProductHunt ==
    /\ Dispatched("producthunt")
    /\ \E ans \in BatchAnswers(producthunt_requests(config, queries)) :
         Ledger(_scrape_producthunt(service, world, config, ans))

ScrapeG2 ==
    /\ Dispatched("g2")
    /\ \E ans \in BatchAnswers(g2_requests(args.competitor_names)) :
         Ledger(_scrape_g2(service, world, config, args.competitor_names, ans))

\* return CommunityScrapingResult(posts=all_posts, sources_succeeded=succeeded,
\*                                sources_failed=failed)
ScrapeAllReturn ==
    /\ spc = "loop"
    /\ idx > Len(sources)
    /\ spc' = "returned"
    /\ UNCHANGED <<config, world, service, args, idx, all_posts, succeeded,
                   failed, trace, streamVars, analyzeVars, restVars>>

\* ------------------------------------------------------------------------
\* One call of scrape_all on a fresh service
\* ------------------------------------------------------------------------

Flags == [SCRAPING_ENABLED : BOOLEAN, SCRAPING_TWITTER_ENABLED : BOOLEAN,
          SCRAPING_STEALTHY_ENABLED : BOOLEAN, PRODUCTHUNT_API_TOKEN : BOOLEAN]

\* scrapling.Fetcher / scrapling.StealthyFetcher / requests can be imported
\* and constructed.
Worlds == [scrapling : BOOLEAN, stealthy : BOOLEAN, requests : BOOLEAN]

\* CommunityScraperService(category): __init__
NewService(cat) == [category |-> cat, _fetcher |-> FALSE, _stealthy_fetcher |-> FALSE]

NameLists == UNION {[1..n -> {"", "Acme"}] : n \in 0..MaxNames}
Arguments == [competitor_names : NameLists, idea_keywords : {"", "an idea"}]

\* One category for each of the two source lists of CATEGORY_SOURCES (hardware
\* has the list of mobile_app, fintech the list of saas_web).
ScrapeCategories == {"mobile_app", "saas_web"}

\* trace: the adapters called, in order; those that raised; those inside which
\* a request failed; the fetches made for the sources behind anti-bot defenses.
NoTrace == [invoked |-> <<>>, raised |-> {}, errors |-> {}, fetches |-> {}]

\* ------------------------------------------------------------------------
\* The opportunity score (routes.py:239-252, ai_analyzer.py:149-168)
\* ------------------------------------------------------------------------

\* class OpportunityScoreBreakdown: seven int fields, in the order of `weights`.
Dimensions ==
    <<"pain_severity", "market_gap", "mvp_feasibility", "competition_density",
      "monetization_potential", "community_demand", "startup_saturation">>

\* Variant: the weight of startup_saturation is left out, the weights add up
\* to 95 hundredths.
weights_without_saturation ==
    [pain_severity |-> 25, market_gap |-> 20, mvp_feasibility |-> 15,
     competition_density |-> 15, monetization_potential |-> 10,
     community_demand |-> 10, startup_saturation |-> 0]

\* weights = {"pain_severity": 0.25, ...}, in hundredths.
weights ==
    [pain_severity |-> 25, market_gap |-> 20, mvp_feasibility |-> 15,
     competition_density |-> 15, monetization_potential |-> 10,
     community_demand |-> 10, startup_saturation |-> 5]

\* The values a dimension takes in the model. The fields are plain ints, so a
\* response can carry values outside 0..100. For these values every product
\* and every partial sum of the weighted sum is a double without rounding
\* error, so the double the code rounds is the exact sum.
DimValues == {-10, 0, 10, 100, 110}
Breakdowns == [Range(Dimensions) -> DimValues]

RECURSIVE SumOver(_, _, _)
SumOver(b, k, acc) ==
    IF k > Len(Dimensions) THEN acc
    ELSE SumOver(b, k + 1, acc + b[Dimensions[k]] * weights[Dimensions[k]])

\* sum(getattr(breakdown, k) * v for k, v in weights.items()), in hundredths.
weighted_sum(b) == SumOver(b, 1, 0)

\* Python's round(x) of a float given in hundredths: to the nearest integer,
\* and a value half way between two integers goes to the even one.
round(h) ==
    LET q == h \div 100
        r == h % 100
    IN  IF r > 50 \/ (r = 50 /\ q % 2 = 1) THEN q + 1 ELSE q

max(a, b) == IF a > b THEN a ELSE b
min(a, b) == IF a < b THEN a ELSE b

\* routes.py:250-252  opportunity_score = max(0, min(100, round(sum(...))))
stream_opportunity_score(b) == max(0, min(100, round(weighted_sum(b))))

\* Variant: the table of analyze_reviews_multi_agent gives pain_severity 30
\* and market_gap 15 hundredths.
analyze_weights_outdated ==
    [pain_severity |-> 30, market_gap |-> 15, mvp_feasibility |-> 15,
     competition_density |-> 15, monetization_potential |-> 10,
     community_demand |-> 10, startup_saturation |-> 5]

\* ai_analyzer.py:150-158  weights = {...}, the table of
\* analyze_reviews_multi_agent, in hundredths.
analyze_weights ==
    [pain_severity |-> 25, market_gap |-> 20, mvp_feasibility |-> 15,
     competition_density |-> 15, monetization_potential |-> 10,
     community_demand |-> 10, startup_saturation |-> 5]

\* breakdown.pain_severity * weights["pain_severity"] + ... + 
\* breakdown.startup_saturation * weights["startup_saturation"], in hundredths.
analyze_weighted_sum(b) ==
    b.pain_severity * analyze_weights.pain_severity
    + b.market_gap * analyze_weights.market_gap
    + b.mvp_feasibility * analyze_weights.mvp_feasibility
    + b.competition_density * analyze_weights.competition_density
    + b.monetization_potential * analyze_weights.monetization_potential
    + b.community_demand * analyze_weights.community_demand
    + b.startup_saturation * analyze_weights.startup_saturation

\* ai_analyzer.py:159-168  opportunity_score = round(...); then
\* opportunity_score = max(0, min(100, opportunity_score))
analyze_opportunity_score(b) ==
    LET opportunity_score == round(analyze_weighted_sum(b))
    IN  max(0, min(100, opportunity_score))

NoBreakdown == [d \in Range(Dimensions) |-> 0]
NoScore == [stream |-> 0, direct |-> 0]

\* The score is computed from the breakdown of the market / analyst response.
Aggregate ==
    /\ fpc = "breakdown"
    /\ fpc' = "scored"
    /\ score' = [stream |-> stream_opportunity_score(breakdown),
                 direct |-> analyze_opportunity_score(breakdown)]
    /\ UNCHANGED <<streamVars, analyzeVars, scrapeVars, syncVars, poolVars, breakdown,
                   body, truncated>>

\* ------------------------------------------------------------------------
\* CommunityScraperService._truncate
\* ------------------------------------------------------------------------

\* The cap given to _truncate (max_len; 500 when the caller gives none).
max_len == 2
\* The longest body of the model.
MaxBody == 6

\* A text is a sequence of characters; None, the absent text, is kept apart
\* from every text by an element that is no character.
Chars == {" ", "x", "."}
None == <<"None">>
RECURSIVE Texts(_)
Texts(n) ==
    IF n = 0 THEN {<<>>}
    ELSE Texts(n - 1) \cup
         {Append(t, c) : t \in {u \in Texts(n - 1) : Len(u) = n - 1}, c \in Chars}
Bodies == Texts(MaxBody) \cup {None}

\* str.strip(): leading and trailing whitespace removed.
RECURSIVE lstrip(_)
lstrip(t) == IF t # <<>> /\ Head(t) = " " THEN lstrip(Tail(t)) ELSE t
RECURSIVE rstrip(_)
rstrip(t) ==
    IF t # <<>> /\ t[Len(t)] = " " THEN rstrip(SubSeq(t, 1, Len(t) - 1)) ELSE t
strip(t) == rstrip(lstrip(t))

Ellipsis == <<".", ".", ".">>

\* Variant: a text of exactly max_len characters is cut as well.
_truncate_at_cap(text, cap) ==
    IF text = None \/ text = <<>> THEN <<>>
    ELSE LET stripped == strip(text)
         IN  IF Len(stripped) >= cap
             THEN SubSeq(stripped, 1, cap) \o Ellipsis
             ELSE stripped

\* Variant: the cut text is stripped again before the ellipsis is appended.
_truncate_restripped(text, cap) ==
    IF text = None \/ text = <<>> THEN <<>>
    ELSE LET stripped == strip(text)
         IN  IF Len(stripped) > cap
             THEN rstrip(SubSeq(stripped, 1, cap)) \o Ellipsis
             ELSE stripped

\* def _truncate(self, text, max_len=500)
_truncate(text, cap) ==
    IF text = None \/ text = <<>> THEN <<>>
    ELSE LET stripped == strip(text)
         IN  IF Len(stripped) > cap
             THEN SubSeq(stripped, 1, cap) \o Ellipsis
             ELSE stripped

NoTruncated == [once |-> <<>>, twice |-> <<>>]

\* _truncate is applied to the body, and again to what it returned.
Truncate ==
    /\ fpc = "body"
    /\ fpc' = "truncated"
    /\ truncated' = [once |-> _truncate(body, max_len),
                     twice |-> _truncate(_truncate(body, max_len), max_len)]
    /\ UNCHANGED <<streamVars, analyzeVars, scrapeVars, syncVars, poolVars, breakdown,
                   score, body>>

\* No pure function is being applied, and no run shares the pool.
PureIdle ==
    /\ streams = <<>>
    /\ pool = <<>>
    /\ fpc = "idle"
    /\ breakdown = NoBreakdown
    /\ score = NoScore
    /\ body = <<>>
    /\ truncated = NoTruncated

\* No call of the synchronous handler.
NoIds == [play_store_id |-> FALSE, app_store |-> FALSE]
SyncIdle ==
    /\ vpc = "idle"
    /\ ids = NoIds
    /\ http = 0
    /\ on_loop = <<>>

\* No direct call of analyze_reviews_multi_agent.
NoVerdict == [status |-> "none", exc |-> ""]
AnalyzeIdle ==
    /\ apc = "idle"
    /\ given = FALSE
    /\ verdict = NoVerdict

\* The scraper is not in use during a pipeline run.
ScraperIdle ==
    /\ config = [SCRAPING_ENABLED |-> TRUE, SCRAPING_TWITTER_ENABLED |-> TRUE,
                 SCRAPING_STEALTHY_ENABLED |-> TRUE, PRODUCTHUNT_API_TOKEN |-> FALSE]
    /\ world = [scrapling |-> TRUE, stealthy |-> TRUE, requests |-> TRUE]
    /\ service = NewService("mobile_app")
    /\ args = [competitor_names |-> <<>>, idea_keywords |-> ""]
    /\ spc = "idle"
    /\ idx = 0
    /\ all_posts = <<>>
    /\ succeeded = <<>>
    /\ failed = <<>>
    /\ trace = NoTrace

\* No streaming run during a call of the scraper.
StreamIdle ==
    /\ pc = "idle"
    /\ connected = FALSE
    /\ events = <<>>
    /\ apiKey = TRUE
    /\ user_category = NoCategory
    /\ tasks = <<>>
    /\ log = <<>>
    /\ cat_result = NoCatResult
    /\ discEnv = NoEnv
    /\ discovery = NoDiscovery
    /\ responses = [p \in Prompts |-> "none"]
    /\ funded = 0
    /\ AnalyzeIdle

InitScrape ==
    /\ StreamIdle
    /\ SyncIdle
    /\ PureIdle
    /\ config \in Flags
    /\ world \in Worlds
    /\ service \in {NewService(c) : c \in ScrapeCategories}
    /\ args \in Arguments
    /\ spc = "call"
    /\ idx = 0
    /\ all_posts = <<>>
    /\ succeeded = <<>>
    /\ failed = <<>>
    /\ trace = NoTrace

NextScrape ==
    \/ ScrapeAllEnter
    \/ SkipTwitter
    \/ SkipStealthy
    \/ ScrapeReddit
    \/ ScrapeHackerNews
    \/ ScrapeTwitter
    \/ ScrapeProductHunt
    \/ ScrapeG2
    \/ ScrapeAllReturn

SpecScrape == InitScrape /\ [][NextScrape]_vars

\* ------------------------------------------------------------------------
\* services/ai_analyzer.py: analyze_reviews_multi_agent, called directly
\* ------------------------------------------------------------------------

\* The function raises e to its caller.
AnalyzeRaise(e) ==
    /\ apc' = "raised"
    /\ verdict' = Raised(e)

\* if not reviews: raise ValueError; if not api_key: raise ValueError.
AnalyzeEnter ==
    /\ apc = "enter"
    /\ IF ~given
       THEN AnalyzeRaise("No reviews provided for analysis.")
       ELSE IF ~apiKey
       THEN AnalyzeRaise("GEMINI_API_KEY not set.")
       ELSE apc' = "call_1" /\ UNCHANGED verdict
    /\ UNCHANGED <<streamVars, given, scrapeVars, restVars>>

AtCall(k) == apc = "call_" \o ToString(k)
InAgent(k) == apc = "in_" \o ToString(k)

\* The agent function of each stage of the direct call.
run_direct(fn, resp) ==
    CASE fn = "researcher" -> run_researcher_agent(resp)
      [] fn = "pm" -> run_pm_agent(resp)
      [] fn = "analyst" -> run_analyst_agent(resp)

\* researcher_result = run_researcher_agent(...), pm_result = run_pm_agent(...),
\* analyst_result = run_analyst_agent(...): the call is made.
AnalyzeCall ==
    \E k \in DOMAIN DirectStages :
        /\ AtCall(k)
        /\ apc' = "in_" \o ToString(k)
        /\ log' = Append(log, Entry(DirectStages[k], "start"))
        /\ UNCHANGED <<pc, connected, events, request, tasks, outcomes, given,
                       verdict, scrapeVars, restVars>>

\* The agent asks the backend and returns its validated output or raises; an
\* exception is not caught by analyze_reviews_multi_agent.
AnalyzeAgent ==
    \E k \in DOMAIN DirectStages, resp \in StageResponses :
        LET fn == DirectStages[k]
            out == run_direct(fn, resp)
        IN  /\ InAgent(k)
            /\ responses' = [responses EXCEPT ![fn] = resp]
            /\ log' = log \o <<Call("backend:" \o fn), Ended(fn, out)>>
            /\ IF out.status = "raised"
               THEN AnalyzeRaise(out.exc)
               ELSE /\ apc' = IF k < Len(DirectStages)
                              THEN "call_" \o ToString(k + 1) ELSE "score"
                    /\ UNCHANGED verdict
            /\ UNCHANGED <<pc, connected, events, request, tasks, cat_result,
                           discEnv, discovery, funded, given, scrapeVars, restVars>>

\* The weighted score and return IdeaValidationResult(...).
AnalyzeReturn ==
    /\ apc = "score"
    /\ apc' = "returned"
    /\ verdict' = Returned
    /\ UNCHANGED <<streamVars, given, scrapeVars, restVars>>

Analyze ==
    \/ AnalyzeEnter
    \/ AnalyzeCall
    \/ AnalyzeAgent
    \/ AnalyzeReturn

\* ------------------------------------------------------------------------
\* api/routes.py: validate_idea, the synchronous handler
\* ------------------------------------------------------------------------

\* routes.py:106  the positional arguments validate_idea gives
\* analyze_reviews_multi_agent
call_args == 5
\* ai_analyzer.py:122  the parameters analyze_reviews_multi_agent takes
analyze_params == 4

\* request.category or "mobile_app"
category_or_default(uc) == IF uc = NoCategory THEN "mobile_app" ELSE uc

\* The handler is an async def: what it calls runs on the event loop thread.
OnLoop(fn) == on_loop' = Append(on_loop, fn)

\* The response of the handler: its status, and the handler has ended.
Respond(status) ==
    /\ http' = status
    /\ vpc' = "done"

\* Lines 86-97: the reviews of the store ids the request carries, or discovery.
\* An exception of discovery is outside the try: the framework answers 500.
ValidateIdeaEvidence ==
    /\ vpc = "start"
    /\ IF ids.play_store_id \/ ids.app_store
       THEN \E a \in 0..MaxHits, i \in 0..MaxHits :
              /\ ~ids.play_store_id => a = 0
              /\ ~ids.app_store => i = 0
              /\ discovery' = DiscoveryResult("ok", "", Rep("android", a) \o Rep("ios", i),
                                              <<>>, <<>>)
              /\ OnLoop("scrape_store_reviews")
              /\ log' = Append(log, Call("store_reviews"))
              /\ vpc' = "evidence"
              /\ UNCHANGED <<discEnv, http>>
       ELSE \E env \in DiscoveryEnvs(category_or_default(user_category)) :
              LET out == discover_competitors_and_scrape(
                             category_or_default(user_category), apiKey, env)
              IN  /\ discEnv' = env
                  /\ discovery' = out
                  /\ OnLoop("discover_competitors_and_scrape")
                  /\ log' = log \o <<Entry("discover", "start")>>
                                \o [k \in DOMAIN out.calls |-> Call(out.calls[k])]
                                \o <<Ended("discover", out)>>
                  /\ IF out.status = "raised"
                     THEN Respond(500)
                     ELSE vpc' = "evidence" /\ UNCHANGED http
    /\ UNCHANGED <<pc, connected, events, request, tasks, cat_result, responses,
                   funded, analyzeVars, scrapeVars, ids, pureVars, poolVars>>

\* Binding the arguments of the call to the parameters of the function.
bind(nargs, nparams) ==
    IF nargs > nparams THEN Raised("TypeError") ELSE Returned

\* The three agents called one after the other with the answers rs: the
\* exception of the first that raises, if any.
RECURSIVE agents_in_turn(_, _)
agents_in_turn(rs, k) ==
    IF k > Len(DirectStages) THEN Returned
    ELSE IF run_direct(DirectStages[k], rs[k]).status = "raised"
    THEN run_direct(DirectStages[k], rs[k])
    ELSE agents_in_turn(rs, k + 1)

\* except ValueError: 400 (JSONDecodeError and pydantic's ValidationError are
\* ValueErrors); except Exception: 500.
status_of(out) ==
    CASE out.status = "ok" -> 200
      [] out.exc \in {"JSONDecodeError", "ValidationError", "ValueError"} -> 400
      [] OTHER -> 500

\* Lines 99-115: 404 without reviews; otherwise the call of
\* analyze_reviews_multi_agent inside the try, and the response.
ValidateIdeaAnalyze ==
    /\ vpc = "evidence"
    /\ IF discovery.reviews = <<>>
       THEN Respond(404) /\ UNCHANGED <<on_loop, log>>
       ELSE IF bind(call_args, analyze_params).status = "raised"
       THEN Respond(status_of(bind(call_args, analyze_params)))
            /\ UNCHANGED <<on_loop, log>>
       ELSE \E rs \in [DOMAIN DirectStages -> StageResponses] :
              /\ Respond(status_of(IF apiKey THEN agents_in_turn(rs, 1)
                                   ELSE Raised("ValueError")))
              /\ OnLoop("analyze_reviews_multi_agent")
              /\ log' = Append(log, Entry("analyze_reviews_multi_agent", "start"))
    /\ UNCHANGED <<pc, connected, events, request, tasks, outcomes, analyzeVars,
                   scrapeVars, ids, pureVars, poolVars>>

Sync ==
    \/ ValidateIdeaEvidence
    \/ ValidateIdeaAnalyze

\* ------------------------------------------------------------------------
\* One pipeline run: a streaming request, a request to the synchronous
\* handler, or a direct call of analyze_reviews_multi_agent
\* ------------------------------------------------------------------------

NoOutcomes ==
    /\ cat_result = NoCatResult
    /\ discEnv = NoEnv
    /\ discovery = NoDiscovery
    /\ responses = [p \in Prompts |-> "none"]
    /\ funded = 0

InitStream ==
    /\ pc = "start"
    /\ connected = TRUE
    /\ events = <<>>
    /\ apiKey \in BOOLEAN
    /\ user_category \in RequestCategories
    /\ tasks = <<>>
    /\ log = <<>>
    /\ NoOutcomes
    /\ AnalyzeIdle
    /\ ScraperIdle
    /\ SyncIdle
    /\ PureIdle

InitAnalyze ==
    /\ pc = "idle"
    /\ connected = FALSE
    /\ events = <<>>
    /\ apiKey \in BOOLEAN
    /\ user_category = NoCategory
    /\ tasks = <<>>
    /\ log = <<>>
    /\ NoOutcomes
    /\ apc = "enter"
    /\ given \in BOOLEAN
    /\ verdict = NoVerdict
    /\ ScraperIdle
    /\ SyncIdle
    /\ PureIdle

InitSync ==
    /\ pc = "idle"
    /\ connected = FALSE
    /\ events = <<>>
    /\ apiKey \in BOOLEAN
    /\ user_category \in RequestCategories
    /\ tasks = <<>>
    /\ log = <<>>
    /\ NoOutcomes
    /\ AnalyzeIdle
    /\ ScraperIdle
    /\ vpc = "start"
    /\ ids \in [play_store_id : BOOLEAN, app_store : BOOLEAN]
    /\ http = 0
    /\ on_loop = <<>>
    /\ PureIdle

Init == InitStream \/ InitAnalyze \/ InitSync

Generator ==
    \/ GenStart
    \/ SubmitDetectCategory
    \/ AfterDetectCategory
    \/ YieldIdentified
    \/ YieldDiscovery
    \/ SubmitDiscovery
    \/ AfterDiscovery
    \/ CheckCompetitors
    \/ ReturnEmpty
    \/ SubmitResearcher
    \/ AfterResearcher
    \/ YieldPM
    \/ SubmitPM
    \/ AfterPM
    \/ YieldMarket
    \/ SubmitMarket
    \/ AfterMarket
    \/ YieldResult
    \/ Finish

Worker ==
    \/ \E i \in DOMAIN tasks : WorkerStart(i)
    \/ \E i \in DOMAIN tasks : WorkerDetectCategory(i)
    \/ \E i \in DOMAIN tasks : WorkerDiscover(i)
    \/ \E i \in DOMAIN tasks : WorkerStage(i)

Next == Generator \/ Worker \/ Disconnect \/ Analyze \/ Sync

Spec == Init /\ [][Next]_vars

\* The event loop resumes the generator of a connected consumer whenever it can
\* run, a pool thread is given to every queued task and a started function
\* comes back; the consumer may stay for ever.
Fairness == WF_vars(Generator) /\ WF_vars(Worker) /\ WF_vars(Analyze)
SpecLive == Spec /\ Fairness

\* ------------------------------------------------------------------------
\* The pure functions applied to every input of the model
\* ------------------------------------------------------------------------

InitScore ==
    /\ StreamIdle
    /\ ScraperIdle
    /\ SyncIdle
    /\ streams = <<>>
    /\ pool = <<>>
    /\ fpc = "breakdown"
    /\ breakdown \in Breakdowns
    /\ score = NoScore
    /\ body = <<>>
    /\ truncated = NoTruncated

SpecScore == InitScore /\ [][Aggregate]_vars

InitTruncate ==
    /\ StreamIdle
    /\ ScraperIdle
    /\ SyncIdle
    /\ streams = <<>>
    /\ pool = <<>>
    /\ fpc = "body"
    /\ breakdown = NoBreakdown
    /\ score = NoScore
    /\ body \in Bodies
    /\ truncated = NoTruncated

SpecTruncate == InitTruncate /\ [][Truncate]_vars

\* ------------------------------------------------------------------------
\* Properties of the streaming run (Spec)
\* ------------------------------------------------------------------------

Terminal(e) == e.event \in {"result", "error"}
IsResult(e) == e.event = "result"
IsError(e) == e.event = "error"
Last(s) == s[Len(s)]

\* The generator body has ended with the consumer still connected.
StreamEnded == pc = "done"

Submitted(fn) == \E i \in DOMAIN tasks : tasks[i].fn = fn
Called(op) == \E i \in DOMAIN log : log[i] = Call(op)

\* C1: in every streaming run whose consumer stays connected, whatever the
\* stages do, the stream ends with exactly one terminal event, a result or an
\* error: an event that is a result or an error is the last one yielded, and
\* when the generator has ended the last event yielded is one of the two.
\* Under SpecLive the generator of a consumer that stays does end.
C1_OneTerminalEvent ==
    /\ [](/\ \A i \in DOMAIN events : Terminal(events[i]) => i = Len(events)
          /\ StreamEnded =>
               /\ events # <<>>
               /\ Terminal(Last(events))
               /\ Count(events, Terminal) = 1)
    /\ <>(StreamEnded \/ ~connected)

\* Streams that ended with a result, and streams that ended with the error of
\* a stage that raised after other stages had run.
C1_Witness ==
    /\ StreamEnded
    /\ IsResult(Last(events))
    /\ Len(events) > 1

\* The starts and ends of the analysis agents, in the order they happened.
StageOps == AnalysisStages \cup Range(DirectStages)
StageLog ==
    SelectSeq(log, LAMBDA e : e.op \in StageOps /\ e.ev \in {"start", "return", "raise"})

\* The position of an agent in the pipeline: Researcher, PM, then the market
\* agent (streaming) or the analyst (direct call).
StageOrder(op) ==
    CASE op = "researcher" -> 1
      [] op = "pm" -> 2
      [] OTHER -> 3

\* C2: within one pipeline run the analysis stages run in the order
\* Researcher, PM, Market: a stage starts only after the stage before it has
\* returned, a stage that raises is the last one, and no two stages of the run
\* are queued or executing at the same time.
C2_StagesStrictlySequential ==
    /\ \A i \in DOMAIN StageLog :
         IF i % 2 = 1
         THEN /\ StageLog[i].ev = "start"
              /\ StageOrder(StageLog[i].op) = (i + 1) \div 2
              /\ i > 1 => StageLog[i - 1].ev = "return"
         ELSE /\ StageLog[i].ev \in {"return", "raise"}
              /\ StageLog[i].op = StageLog[i - 1].op
    /\ Cardinality({i \in DOMAIN tasks :
                      tasks[i].fn \in AnalysisStages /\ tasks[i].state # "done"}) <= 1

\* All three stages of a streaming run have run and returned.
C2_Witness ==
    /\ Len(StageLog) = 6
    /\ StageLog[5] = Entry("market", "start")
    /\ StageLog[6] = Entry("market", "return")

\* C3: when the PM response fails validation against PMOutput, the run
\* aborts: the market stage is never submitted nor its backend called, no
\* result is yielded, and the stream ends with the one error of that failure.
C3_PMSchemaFailureAborts ==
    responses["pm"] = "schema_fail" =>
        /\ ~Submitted("market")
        /\ ~Called("backend:market")
        /\ Count(events, IsResult) = 0
        /\ StreamEnded =>
             /\ Last(events) = ErrorEvent("ValidationError")
             /\ Count(events, Terminal) = 1

C3_Witness ==
    /\ responses["pm"] = "schema_fail"
    /\ StreamEnded

\* C9: detect_category called with an explicit category of the enumeration
\* returns that category and does not call the backend.
C9_ExplicitCategoryShortCircuit ==
    (user_category \in {"mobile_app", "hardware", "fintech", "saas_web"}
        /\ cat_result.status # "none") =>
        /\ cat_result.status = "ok"
        /\ cat_result.category = user_category
        /\ ~Called("backend:classify")
        /\ responses["classify"] = "none"

C9_Witness ==
    /\ user_category = "fintech"
    /\ cat_result.status = "ok"
    /\ cat_result.category = "fintech"

\* The backend was asked to classify and named a category outside the
\* enumeration.
OutsideEnumeration ==
    responses["classify"] \notin
        {"none", "raise", "mobile_app", "hardware", "fintech", "saas_web"}

\* C10: when no valid explicit category is given and the backend names a
\* category outside the enumeration, classification raises and the run ends
\* with that error: no category is substituted, neither discovery nor an
\* analysis stage is submitted, and no result is yielded.
C10_OutsideEnumerationFails ==
    OutsideEnumeration =>
        /\ cat_result.status = "raised"
        /\ cat_result.category \notin {"mobile_app", "hardware", "fintech", "saas_web"}
        /\ ~Submitted("discover")
        /\ \A st \in AnalysisStages : ~Submitted(st)
        /\ \A i \in DOMAIN events : events[i].event \notin {"category", "result"}
        /\ StreamEnded =>
             /\ Last(events) = ErrorEvent("ValidationError")
             /\ Count(events, Terminal) = 1

C10_Witness ==
    /\ OutsideEnumeration
    /\ user_category \notin {"mobile_app", "hardware", "fintech", "saas_web"}
    /\ StreamEnded

\* Discovery ran its mobile_app / fintech branch as far as the directories.
StoreBranchRan ==
    /\ discovery.status # "none"
    /\ cat_result.category \in {"mobile_app", "fintech"}
    /\ discEnv.query = "ok"

InCalls(op) == \E i \in DOMAIN discovery.calls : discovery.calls[i] = op
FromSource(src) == Count(discovery.competitors, LAMBDA c : c.source = src)
OfPlatform(pf) == Count(discovery.reviews, LAMBDA r : r = pf)

\* C7: in the mobile_app / fintech branch a directory call that fails does not
\* abort the others: all three directories are queried, and what each
\* directory that answers has found is returned.
C7_DirectoryFailuresIsolated ==
    StoreBranchRan =>
        /\ InCalls("play_search") /\ InCalls("itunes_search") /\ InCalls("web_search")
        /\ ~discEnv.play.raise =>
             /\ FromSource("play_store") = discEnv.play.hits
             /\ OfPlatform("android") = discEnv.play.reviews
        /\ ~discEnv.itunes.raise =>
             /\ FromSource("app_store") = discEnv.itunes.hits
             /\ OfPlatform("ios") = discEnv.itunes.reviews
        /\ ~discEnv.web.raise => FromSource("web") = discEnv.web.hits

\* C8: in the mobile_app / fintech branch, when both store directories fail
\* with a network error, discovery returns ([], []) and does not raise.
C8_BothStoresDownReturnsEmpty ==
    (StoreBranchRan /\ discEnv.play.raise /\ discEnv.itunes.raise) =>
        /\ discovery.status = "ok"
        /\ discovery.reviews = <<>>
        /\ discovery.competitors = <<>>

C8_Witness ==
    /\ StoreBranchRan
    /\ discEnv.play.raise
    /\ discEnv.itunes.raise
    /\ tasks[Len(tasks)].fn = "discover"
    /\ tasks[Len(tasks)].state = "done"

\* C13: once the consumer has disconnected, no further stage is submitted to
\* the worker pool and no further event is yielded; a task already on the pool
\* may run to completion, and nothing is made of its result.
C13_DisconnectStopsTheRun ==
    [][~connected' => (events' = events /\ Len(tasks') = Len(tasks))]_vars

\* The consumer left after the second stage event, while discovery was on the
\* pool; discovery has run to completion and no event reports it.
C13_Witness ==
    /\ ~connected
    /\ pc = "cancelled"
    /\ Len(events) = 4
    /\ events[4] = Status("Discovery Agent", 2)
    /\ Len(tasks) = 2
    /\ tasks[2].fn = "discover"
    /\ tasks[2].state = "done"

\* Discovery ran its hardware or saas_web branch and the backend answered
\* with a text.
ListedBranchParsed ==
    /\ discovery.status # "none"
    /\ InCalls("hardware_search") \/ InCalls("saas_search")
    /\ discEnv.listed.kind # "raise"

\* C20: in the hardware and saas_web branches parsing the response of the
\* backend never throws: for every response text (no array, a malformed array,
\* an array whose elements are not objects, an empty text) the branch returns,
\* with no competitors whenever the list cannot be parsed.
C20_ListParsingNeverThrows ==
    ListedBranchParsed =>
        /\ discovery.status = "ok"
        /\ discEnv.listed.kind # "list" => discovery.competitors = <<>>

\* The synchronous handler has answered.
SyncEnded == vpc = "done"

\* Evidence is available and no analysis agent has failed.
EvidenceAvailable == discovery.status = "ok" /\ discovery.reviews # <<>>
NoStageFailed ==
    \A p \in StageOps : responses[p] \notin {"raise", "bad_json", "schema_fail"}

\* C14: in synchronous mode, when evidence is available and every analysis
\* stage succeeds, the run completes and the handler returns the result (it
\* does not answer with an error).
C14_SyncReturnsResult ==
    (SyncEnded /\ EvidenceAvailable /\ NoStageFailed) => http = 200

\* The functions a run has started, in order.
StartedLog == SelectSeq(log, LAMBDA e : e.ev = "start")
Started == [i \in DOMAIN StartedLog |-> StartedLog[i].op]

\* C15: a run that reaches the analysis stages has first run the evidence
\* scraper: scrape_all has been called and has returned before the researcher
\* is submitted.
C15_ScraperRunsBeforeAnalysis ==
    Submitted("researcher") => spc = "returned"

\* The stage sequence of a complete run.
PipelineStages == <<"detect_category", "discover", "researcher", "pm", "market">>

\* C16: the synchronous and the streaming mode execute the same stage
\* sequence and reach the same terminal state: a streaming run that ends with
\* a result has started classification, discovery, researcher, PM and market
\* scoring in this order, and so has a synchronous run with evidence and no
\* failing stage, which ends with the result.
C16_ModesRunTheSameStages ==
    /\ (StreamEnded /\ IsResult(Last(events))) => Started = PipelineStages
    /\ (SyncEnded /\ EvidenceAvailable /\ NoStageFailed) =>
         (Started = PipelineStages /\ http = 200)

\* C17: no blocking external call of a run executes on the coordinator (event
\* loop) thread: every one is dispatched to the worker pool.
C17_NoBlockingCallOnTheLoop ==
    on_loop = <<>>

\* ------------------------------------------------------------------------
\* Properties of scrape_all (SpecScrape)
\* ------------------------------------------------------------------------

\* The sources of the category that no flag disables, in order.
Skipped(s) ==
    \/ s = "twitter" /\ ~config.SCRAPING_TWITTER_ENABLED
    \/ s \in {"twitter", "g2"} /\ ~config.SCRAPING_STEALTHY_ENABLED
EnabledSources == SelectSeq(sources, LAMBDA s : ~Skipped(s))

ScrapeReturned == spc = "returned"

\* C4: an adapter that raises is recorded in sources_failed and the adapters
\* after it are still called; scrape_all returns and does not raise. When
\* every enabled adapter raises, the result has no posts, sources_failed is
\* the enabled adapters and sources_succeeded is empty.
C4_AdapterFailureIsolated ==
    /\ spc \in {"idle", "call", "loop", "returned"}
    /\ trace.raised = Range(failed)
    /\ Range(succeeded) = Range(trace.invoked) \ trace.raised
    /\ (ScrapeReturned /\ config.SCRAPING_ENABLED) =>
         /\ trace.invoked = EnabledSources
         /\ trace.raised = Range(EnabledSources) =>
              /\ all_posts = <<>>
              /\ failed = EnabledSources
              /\ succeeded = <<>>

\* scrape_all has returned after every enabled adapter raised, two or more.
C4_Witness ==
    /\ ScrapeReturned
    /\ config.SCRAPING_ENABLED
    /\ Len(failed) >= 2
    /\ failed = EnabledSources

\* C5: an external source error inside an adapter (a timeout, a non-200
\* response, a malformed payload) has the adapter's source recorded in
\* sources_failed and not in sources_succeeded.
C5_SourceErrorRecordedAsFailed ==
    \A s \in trace.errors : s \in Range(failed) /\ s \notin Range(succeeded)

\* C6: with SCRAPING_ENABLED false scrape_all returns no posts and an empty
\* ledger, calls no adapter and builds no fetcher.
C6_DisabledScraperDoesNothing ==
    ~config.SCRAPING_ENABLED =>
        /\ trace.invoked = <<>>
        /\ ~service._fetcher /\ ~service._stealthy_fetcher
        /\ all_posts = <<>> /\ succeeded = <<>> /\ failed = <<>>
        /\ spc \in {"call", "returned"}

C6_Witness ==
    /\ ~config.SCRAPING_ENABLED
    /\ ScrapeReturned

\* ------------------------------------------------------------------------
\* Properties of the opportunity score (SpecScore)
\* ------------------------------------------------------------------------

Scored == fpc = "scored"
InRange(b) == \A d \in Range(Dimensions) : b[d] \in 0..100
AllAt(b, v) == \A d \in Range(Dimensions) : b[d] = v

\* C11: for every breakdown whose seven dimensions are each in 0..100 the
\* opportunity score, at both places that compute it, is an integer in 0..100;
\* all dimensions 0 give 0 and all dimensions 100 give 100.
C11_ScoreInRange ==
    (Scored /\ InRange(breakdown)) =>
        /\ score.stream \in 0..100
        /\ score.direct \in 0..100
        /\ AllAt(breakdown, 0) => score.stream = 0 /\ score.direct = 0
        /\ AllAt(breakdown, 100) => score.stream = 100 /\ score.direct = 100

C11_Witness ==
    /\ Scored
    /\ AllAt(breakdown, 100)
    /\ score = [stream |-> 100, direct |-> 100]

\* Rounding to the nearest integer, a half rounded upwards.
RoundHalfUp(h) == (h + 50) \div 100
Clamp(n) == IF n < 0 THEN 0 ELSE IF n > 100 THEN 100 ELSE n

\* C12: the opportunity score is the weighted sum of the seven dimensions
\* (weights 25, 20, 15, 15, 10, 10, 5 percent) rounded half up and then clamped
\* to 0..100: a sum whose fractional part is exactly one half is rounded
\* upwards.
C12_ScoreRoundsHalfUp ==
    Scored =>
        /\ score.stream = Clamp(RoundHalfUp(weighted_sum(breakdown)))
        /\ score.direct = Clamp(RoundHalfUp(weighted_sum(breakdown)))

Truncated == fpc = "truncated"
FirstChars(t, n) == [i \in 1..n |-> t[i]]

\* C18 as stated: a body longer than the cap comes back as its first max_len
\* characters followed by an ellipsis, a body at or under the cap unchanged.
C18_TruncateOfBody ==
    (Truncated /\ body # None) =>
        IF Len(body) > max_len
        THEN truncated.once = FirstChars(body, max_len) \o <<".", ".", ".">>
        ELSE truncated.once = body

\* The body without its leading and trailing whitespace, found by position:
\* from its first to its last character that is not a blank.
Inked(t) == {i \in DOMAIN t : t[i] # " "}
First(t) == CHOOSE i \in Inked(t) : \A j \in Inked(t) : i <= j
Final(t) == CHOOSE i \in Inked(t) : \A j \in Inked(t) : j <= i
Core(t) ==
    IF t = None \/ Inked(t) = {} THEN <<>>
    ELSE [i \in 1..(Final(t) - First(t) + 1) |-> t[First(t) + i - 1]]

\* C18, amended: _truncate first strips the whitespace around the body (an
\* absent body counts as empty); when what is left is longer than the cap it
\* returns its first max_len characters followed by an ellipsis, and otherwise
\* it returns what is left unchanged.
C18_TruncateOfStrippedBody ==
    Truncated =>
        IF Len(Core(body)) > max_len
        THEN truncated.once = FirstChars(Core(body), max_len) \o <<".", ".", ".">>
        ELSE truncated.once = Core(body)

\* A body with whitespace around it that is longer than the cap once stripped.
C18_Witness ==
    /\ Truncated
    /\ body # None
    /\ Core(body) # body
    /\ Len(Core(body)) > max_len
    /\ Len(truncated.once) = max_len + 3

\* C19: truncation is idempotent: _truncate(_truncate(t)) = _truncate(t) for
\* every body t, also when _truncate(t) carries the ellipsis and is longer
\* than the cap.
C19_TruncateIdempotent ==
    Truncated => truncated.twice = truncated.once

\* The truncated text carries the ellipsis, is longer than the cap, and has a
\* blank just before the ellipsis.
C19_Witness ==
    /\ Truncated
    /\ Len(truncated.once) = max_len + 3
    /\ truncated.once[max_len] = " "
    /\ truncated.twice = truncated.once

\* ------------------------------------------------------------------------
\* The ledger of scrape_all (SpecScrape)
\* ------------------------------------------------------------------------

\* The sources scrape_all is to scrape: none when scraping is disabled.
ToScrape == IF config.SCRAPING_ENABLED THEN EnabledSources ELSE <<>>
NoDuplicates(s) == Cardinality(Range(s)) = Len(s)
InSourceOrder(s) == s = SelectSeq(sources, LAMBDA x : x \in Range(s))

\* C27: after any call of scrape_all, sources_succeeded and sources_failed are
\* disjoint, have no duplicates and together hold exactly the sources of the
\* category that no flag disables, in the order of the category; a source a
\* flag disables is in neither list and its adapter is never called; and the
\* posts returned number at most SCRAPING_MAX_PER_SOURCE for each source that
\* succeeded.
C27_LedgerPartitionsEnabledSources ==
    /\ \A i \in DOMAIN trace.invoked :
         ~Skipped(trace.invoked[i]) /\ config.SCRAPING_ENABLED
    /\ ScrapeReturned =>
         /\ Range(succeeded) \cap Range(failed) = {}
         /\ NoDuplicates(succeeded) /\ NoDuplicates(failed)
         /\ InSourceOrder(succeeded) /\ InSourceOrder(failed)
         /\ Range(succeeded) \cup Range(failed) = Range(ToScrape)
         /\ trace.invoked = ToScrape
         /\ Len(all_posts) <= SCRAPING_MAX_PER_SOURCE * Len(succeeded)

\* A call that skipped a source, had an adapter raise and another return more
\* posts than are kept.
C27_Witness ==
    /\ ScrapeReturned
    /\ Len(ToScrape) < Len(sources)
    /\ failed # <<>>
    /\ succeeded # <<>>
    /\ all_posts # <<>>

\* ------------------------------------------------------------------------
\* The status notifications of the stream (Spec)
\* ------------------------------------------------------------------------

\* The stage name and the step a status carries for each blocking call.
Announced ==
    [detect_category |-> Status("Category Detector", 1),
     discover |-> Status("Discovery Agent", 2),
     researcher |-> Status("Researcher Agent", 3),
     pm |-> Status("PM Agent", 4),
     market |-> Status("Market Intelligence", 5)]

StatusEvents == SelectSeq(events, LAMBDA e : e.event = "status")

\* C24: every status of a stream carries a stage name, a message, a step and
\* the total number of steps, with the step within 1..total; along the stream
\* the step never decreases; and when a blocking call is handed to the pool,
\* the last event yielded is the status that announces its stage.
C24_StatusAnnouncesEachStage ==
    /\ [](/\ \A i \in DOMAIN StatusEvents :
               /\ DOMAIN StatusEvents[i] =
                    {"event", "agent", "message", "step", "total"}
               /\ StatusEvents[i].agent # ""
               /\ StatusEvents[i].total = total_steps
               /\ StatusEvents[i].step \in 1..StatusEvents[i].total
          /\ \A i, j \in DOMAIN StatusEvents :
               i <= j => StatusEvents[i].step <= StatusEvents[j].step
          /\ \A i \in DOMAIN tasks :
               \E j \in DOMAIN StatusEvents :
                   StatusEvents[j] = Announced[tasks[i].fn])
    /\ [][Len(tasks') > Len(tasks) =>
            /\ events # <<>>
            /\ Last(events) = Announced[Last(tasks').fn]
            /\ events' = events]_vars

\* A stream whose five stages were all announced and submitted.
C24_Witness ==
    /\ Len(tasks) = 5
    /\ Last(tasks).fn = "market"
    /\ Len(StatusEvents) = 9
    /\ Last(StatusEvents).step = total_steps

\* ------------------------------------------------------------------------
\* The missing backend key (Spec)
\* ------------------------------------------------------------------------

BackendCalls == SelectSeq(log, LAMBDA e : e.ev = "call")

\* C23: without the backend key a run makes no call at all (no task on the
\* pool, no classifier, discovery, store or agent call) and ends with one
\* error that carries the message of the configuration error: the single
\* error event of the stream, the ValueError of the direct call, the 400
\* response that carries str(ve) in the synchronous handler.
C23_MissingKeyAbortsAtOnce ==
    ~apiKey =>
        /\ tasks = <<>>
        /\ BackendCalls = <<>>
        /\ StreamEnded => events = <<ErrorEvent("GEMINI_API_KEY not set.")>>
        /\ (apc = "raised" /\ given) =>
               verdict = Raised("GEMINI_API_KEY not set.")
        /\ SyncEnded => http = 400

\* The same for the streaming generator and the direct call alone (it holds).
MissingKeyInStreamAndDirect ==
    (~apiKey /\ vpc = "idle") =>
        /\ tasks = <<>>
        /\ BackendCalls = <<>>
        /\ StreamEnded => events = <<ErrorEvent("GEMINI_API_KEY not set.")>>
        /\ (apc = "raised" /\ given) =>
               verdict = Raised("GEMINI_API_KEY not set.")

\* ------------------------------------------------------------------------
\* The categories without reviews (Spec)
\* ------------------------------------------------------------------------

\* Discovery took the hardware or the saas_web branch and returned.
ListedBranchReturned ==
    /\ discovery.status = "ok"
    /\ InCalls("hardware_search") \/ InCalls("saas_search")

\* C21: the hardware and saas_web branches return no reviews and at most 8
\* competitors, and with at least one competitor the run goes on to the
\* researcher in both modes: the stream does not end before the researcher is
\* submitted, and the synchronous handler does not answer 404.
C21_ListedCompetitorsReachResearcher ==
    ListedBranchReturned =>
        /\ discovery.reviews = <<>>
        /\ Len(discovery.competitors) <= 8
        /\ discovery.competitors # <<>> =>
             /\ pc # "y_error_empty"
             /\ StreamEnded => Submitted("researcher")
             /\ SyncEnded => http # 404

\* The same for the streaming generator alone (it holds).
ListedCompetitorsReachResearcherInStream ==
    (ListedBranchReturned /\ vpc = "idle") =>
        /\ discovery.reviews = <<>>
        /\ Len(discovery.competitors) <= listed_limit
        /\ discovery.competitors # <<>> =>
             /\ pc # "y_error_empty"
             /\ StreamEnded => Submitted("researcher")

\* Discovery returned ([], []).
NothingDiscovered == discovery.status = "ok" /\ NoCompetitors

\* C22: when discovery returns ([], []) no analysis stage is invoked and the
\* run ends in a no-evidence outcome that is not the error outcome of a
\* failure: the stream does not end with an error event, and the synchronous
\* handler answers 404.
C22_NoEvidenceIsNotAnError ==
    NothingDiscovered =>
        /\ \A fn \in AnalysisStages : ~Submitted(fn)
        /\ \A fn \in StageOps : ~Called("backend:" \o fn)
        /\ StreamEnded => events # <<>> /\ ~IsError(Last(events))
        /\ SyncEnded => http = 404

\* The part of C22 about the analysis stages (it holds): after ([], []) no
\* analysis stage is submitted or called and the run ends.
NoEvidenceEndsTheRun ==
    NothingDiscovered =>
        /\ \A fn \in AnalysisStages : ~Submitted(fn)
        /\ \A fn \in StageOps : ~Called("backend:" \o fn)
        /\ StreamEnded => events # <<>> /\ Terminal(Last(events))
        /\ SyncEnded => http = 404

\* ------------------------------------------------------------------------
\* The stealthy fetcher as a fallback (SpecScrape)
\* ------------------------------------------------------------------------

\* C25: for twitter and G2, a fetch with the stealthy fetcher is made only
\* after the lightweight path was tried for that query and yielded nothing,
\* and only with SCRAPING_STEALTHY_ENABLED.
C25_StealthyOnlyAfterLightweight ==
    \A f \in trace.fetches :
        f.heavy => f.light = "zero" /\ config.SCRAPING_STEALTHY_ENABLED

\* The same for the twitter adapter alone (it holds).
TwitterStealthyOnlyAfterLightweight ==
    \A f \in trace.fetches :
        (f.source = "twitter" /\ f.heavy) =>
            f.light = "zero" /\ config.SCRAPING_STEALTHY_ENABLED

\* ------------------------------------------------------------------------
\* The array of the hardware and saas_web responses (Spec)
\* ------------------------------------------------------------------------

\* The response holds one well-formed array, of discEnv.listed.n objects.
HoldsArray ==
    /\ discovery.status # "none"
    /\ InCalls("hardware_search") \/ InCalls("saas_search")
    /\ discEnv.listed.kind \in ListedKinds

\* C26: when the response holds a well-formed array, alone or with prose
\* before or after it that has brackets of its own, the competitors returned
\* are those of the array (the first 8).
C26_FirstWellFormedArrayParsed ==
    HoldsArray =>
        /\ discovery.status = "ok"
        /\ Len(discovery.competitors) =
             IF discEnv.listed.n < 8 THEN discEnv.listed.n ELSE 8

\* The same for a response that is the array alone (it holds).
ArrayAloneParsed ==
    (HoldsArray /\ discEnv.listed.kind = "list") =>
        /\ discovery.status = "ok"
        /\ Len(discovery.competitors) =
             IF discEnv.listed.n < 8 THEN discEnv.listed.n ELSE 8

\* ------------------------------------------------------------------------
\* The category handed to discovery (Spec)
\* ------------------------------------------------------------------------

\* The handler took the reviews of the store ids of the request.
StoreBranchOfIds == vpc # "idle" /\ (ids.play_store_id \/ ids.app_store)

\* Discovery was called, by the worker of the stream or by the handler.
DiscoveryCalled == discovery.status # "none" /\ ~StoreBranchOfIds

\* The category the caller of discovery passed: cat_result.category in the
\* stream (routes.py:166), request.category or "mobile_app" in the handler
\* (routes.py:97).
HandedToDiscovery ==
    IF vpc = "idle" THEN cat_result.category
    ELSE category_or_default(user_category)

\* C28: in both modes the category handed to discovery and to the analysis
\* stages is one of mobile_app, hardware, fintech, saas_web: a category of the
\* request outside the enumeration does not reach discovery as it is.
C28_CategoryAlwaysInEnumeration ==
    /\ DiscoveryCalled => HandedToDiscovery \in valid
    /\ (\E fn \in AnalysisStages : Submitted(fn)) => cat_result.category \in valid

\* The same for the streaming generator alone (it holds).
CategoryInEnumerationInStream ==
    vpc = "idle" =>
        /\ DiscoveryCalled => HandedToDiscovery \in valid
        /\ (\E fn \in AnalysisStages : Submitted(fn)) =>
               cat_result.category \in valid

\* ------------------------------------------------------------------------
\* Several streaming runs on _executor (SpecPool)
\* ------------------------------------------------------------------------

RunIds == 1..NumRuns

\* A generator that has not started; one that awaits the future of fn; one
\* that ended after its terminal event.
NewStream == [pc |-> "start", fn |-> "", terminal |-> ""]
Awaiting(fn) == [pc |-> "await", fn |-> fn, terminal |-> ""]
EndedWith(ev) == [pc |-> "done", fn |-> "", terminal |-> ev]

\* _executor: the work queue, the tasks the worker threads are running, and
\* the tasks whose future is done and has not been taken by its generator.
NewPool == [queue |-> <<>>, busy |-> {}, done |-> {}]
PoolTask(r, fn) == [run |-> r, fn |-> fn]
AllTasks(q) == Range(q.queue) \cup q.busy \cup q.done
TasksOf(r) == {t \in AllTasks(pool) : t.run = r}

\* _executor.submit: the task goes to a worker thread when fewer than
\* max_workers are busy, and waits in the work queue otherwise.
submit(q, t) ==
    IF Cardinality(q.busy) < max_workers
    THEN [q EXCEPT !.busy = @ \cup {t}]
    ELSE [q EXCEPT !.queue = Append(@, t)]

\* Variant: run_in_executor is not awaited, the generator goes on while its
\* task is still in the pool.
Awaited_not_done(r) == TasksOf(r) # {}

\* await loop.run_in_executor(...): the future of the run's task is done.
Awaited(r) == \E t \in pool.done : t.run = r

\* The pool once the generator of run r has taken the result of its future.
Taken(r) == [pool EXCEPT !.done = {t \in @ : t.run # r}]

\* The stage after fn in the generator, "" after the last.
NextStage(fn) ==
    LET k == CHOOSE j \in DOMAIN PipelineStages : PipelineStages[j] = fn
    IN  IF k < Len(PipelineStages) THEN PipelineStages[k + 1] ELSE ""

\* The generator of run r starts: the first status, and detect_category is
\* handed to the pool.
StreamStart(r) ==
    /\ streams[r].pc = "start"
    /\ streams' = [streams EXCEPT ![r] = Awaiting(PipelineStages[1])]
    /\ pool' = submit(pool, PoolTask(r, PipelineStages[1]))
    /\ UNCHANGED <<streamVars, analyzeVars, scrapeVars, syncVars, pureVars>>

\* The future run r awaits is done and the generator goes on: the exception
\* of the call (or "No competitors found") ends the stream with an error, the
\* last stage with the result, and any other stage is followed by the status
\* of the next one and its run_in_executor.
StreamResume(r) ==
    /\ streams[r].pc = "await"
    /\ Awaited(r)
    /\ \E out \in {"ok", "error"} :
         IF out = "error"
         THEN /\ streams' = [streams EXCEPT ![r] = EndedWith("error")]
              /\ pool' = Taken(r)
         ELSE IF NextStage(streams[r].fn) = ""
         THEN /\ streams' = [streams EXCEPT ![r] = EndedWith("result")]
              /\ pool' = Taken(r)
         ELSE /\ streams' = [streams EXCEPT
                               ![r] = Awaiting(NextStage(streams[r].fn))]
              /\ pool' = submit(Taken(r), PoolTask(r, NextStage(streams[r].fn)))
    /\ UNCHANGED <<streamVars, analyzeVars, scrapeVars, syncVars, pureVars>>

\* The blocking call of task t returns or raises on its worker thread: the
\* future is done, and the thread takes the oldest task of the work queue.
PoolComplete(t) ==
    /\ t \in pool.busy
    /\ pool' = IF pool.queue = <<>>
               THEN [pool EXCEPT !.busy = @ \ {t}, !.done = @ \cup {t}]
               ELSE [queue |-> Tail(pool.queue),
                     busy |-> (pool.busy \ {t}) \cup {Head(pool.queue)},
                     done |-> pool.done \cup {t}]
    /\ UNCHANGED <<streams, streamVars, analyzeVars, scrapeVars, syncVars, pureVars>>

PoolGenerator == \E r \in RunIds : StreamStart(r) \/ StreamResume(r)
PoolWorker == \E t \in pool.busy : PoolComplete(t)

InitPool ==
    /\ StreamIdle
    /\ ScraperIdle
    /\ SyncIdle
    /\ fpc = "idle"
    /\ breakdown = NoBreakdown
    /\ score = NoScore
    /\ body = <<>>
    /\ truncated = NoTruncated
    /\ streams = [r \in RunIds |-> NewStream]
    /\ pool = NewPool

NextPool == PoolGenerator \/ PoolWorker

\* The event loop keeps resuming generators whose future is done, and every
\* blocking call ends.
SpecPool ==
    InitPool /\ [][NextPool]_vars /\ WF_vars(PoolGenerator) /\ WF_vars(PoolWorker)

\* C30: with more streaming runs than workers, each run has at most one task
\* in the pool at any time, at most max_workers = 4 blocking calls execute at
\* once (and none waits while a worker is free), the step that ends a blocking
\* call submits no task, and every run ends with its terminal event.
C30_PoolSharedWithoutStarvation ==
    /\ [](/\ \A r \in RunIds : Cardinality(TasksOf(r)) <= 1
          /\ Len(pool.queue) + Cardinality(pool.busy) + Cardinality(pool.done)
               = Cardinality(AllTasks(pool))
          /\ Cardinality(pool.busy) <= 4
          /\ pool.queue # <<>> => Cardinality(pool.busy) = 4)
    /\ [][(pool.busy \cap pool'.done # {})
            => AllTasks(pool') = AllTasks(pool) /\ streams' = streams]_vars
    /\ <>(\A r \in RunIds :
            streams[r].pc = "done" /\ streams[r].terminal \in {"result", "error"})

\* All four workers are busy and the last stage of a fifth run waits in the
\* work queue.
C30_Witness ==
    /\ Cardinality(pool.busy) = max_workers
    /\ pool.queue # <<>>
    /\ Head(pool.queue).fn = "market"
    /\ streams[Head(pool.queue).run] = Awaiting("market")

====
